---------------------------- MODULE Spec2Model ----------------------------
(***************************************************************************)
(* A model of the polling / approval-workflow / SLA-alert core of the PM   *)
(* agent service:                                                          *)
(*   - the approval workflow store (src/database/pm_requests_db.py) and    *)
(*     the orchestrator handlers that drive it                             *)
(*     (src/orchestration/claude_code_orchestrator.py);                    *)
(*   - the SLA alert tracker (scripts/utilities/sla_alert_tracker.py);     *)
(*   - the processed-item ledgers and polling monitors (src/monitors/*.py) *)
(*     and the worker loops that dispatch their events                     *)
(*     (src/pm_agent_service.py).                                          *)
(*                                                                         *)
(* Timestamps are integers (clock ticks); NULL is 0.  Text produced by the *)
(* reasoning service is a token drawn from a small set.                    *)
(***************************************************************************)
EXTENDS Integers, Sequences, FiniteSets, Bags, TLC

----------------------------------------------------------------------------
(* Bounds of the model (not program constants).                            *)

MaxClock == 2
StoreMaxRequests == 2
StoreMaxRevisionRows == 3
MaxLevel == 2
MaxAlertCount == 2
MaxSlaTicks == 3
MaxSlaPosts == 3
MaxRunViolations == 1
MaxMarkCalls == 2
MaxParserTokens == 2
JiraMaxComments == 2
SlackMaxMessages == 2
SlackMaxPolls == 2
BbMaxComments == 1

----------------------------------------------------------------------------
VARIABLES
    now,            \* the wall clock (datetime.now() / CURRENT_TIMESTAMP)
    requests,       \* table pending_pm_requests: sequence of rows, rowid = request_id
    revisions,      \* table pm_request_revisions: a bag of rows (no uniqueness constraint)
    lastCall,       \* the last store/orchestrator call and what it returned
    sla_alerts,     \* table sla_alerts: violation_id -> row
    slaTicks,       \* how often the SLA clock was advanced (bounds the run)
    slaCall,        \* the last call of the alert tracker and what it returned
    slaPosts,       \* the alerts chat.postMessage accepted, in order: id, level, hour
    processed_mentions,  \* jira_state.db table processed_mentions: a bag of rows
    processed_messages,  \* slack_state.db table processed_messages: a bag of rows
    txn,            \* per caller: the write transaction it has open, if any
    markCalls,      \* per (source, key): how many mark_processed calls returned
    markRaised,     \* whether any mark_processed call raised
    jira_comments,  \* upstream: the comments of the Jira issue, in creation order
    jira_authors,   \* upstream: the author account of each comment of the issue
    jira_last_check,\* jira_state.db table last_check: the stored timestamp, 0 if no row
    jiraEvents,     \* Jira worker: the events of the last poll not yet dispatched
    jiraDelivered,  \* comment ids whose side effect was confirmed delivered
    jiraFailed,     \* comment ids whose side effect failed or was not attempted
    jiraPoll,       \* the last poll_for_mentions call and what it returned
    jiraBranch,     \* Jira worker: the branch taken for the last dispatched event
    slack_messages, \* upstream: the users' messages of the channel, ts = index
    tracked_threads,\* slack_state.db table tracked_threads: thread_ts -> last_checked_ts
    slackEvents,    \* Slack worker: the events of the last poll not yet dispatched
    slackEffects,   \* per message ts: how many dispatches of it had their branch succeed
    slackQuiet,     \* no new message and no failed dispatch since the last successful poll
    slackPolls,     \* how many polls were made (bounds the run)
    slackPoll,      \* the last poll_for_mentions call and what it returned
    bb_comments,    \* upstream: per repository, the comments of its open pull request
    processed_pr_comments, \* bitbucket_state.db table processed_pr_comments: a bag of rows
    bb_last_check,  \* bitbucket_state.db table last_check_per_repo: repo -> timestamp
    bbPoll,         \* the last poll_pull_requests call and what it returned
    svcPhase,       \* the service process: new, constructed, started, stopping, exit_0, exit_1
    svcEnv,         \* the connectors whose credentials the environment holds
    svcMonitors,    \* the connectors whose monitor attribute is not None
    running,        \* PMAgentService.running
    svcThreads,     \* PMAgentService.threads: the connectors whose worker was started
    worker,         \* per started worker: its position, its batch and what it handled
    svcPolls        \* how many polls the workers made (bounds the run)

storeVars == <<requests, revisions, lastCall>>
slaVars == <<sla_alerts, slaTicks, slaCall, slaPosts>>
ledgerVars == <<processed_mentions, processed_messages>>
callerVars == <<txn, markCalls, markRaised>>
jiraVars == <<jira_comments, jira_authors, jira_last_check, jiraEvents, jiraDelivered,
              jiraFailed, jiraPoll, jiraBranch>>
slackVars == <<slack_messages, tracked_threads, slackEvents, slackEffects,
               slackQuiet, slackPolls, slackPoll>>
bbVars == <<bb_comments, processed_pr_comments, bb_last_check, bbPoll>>
connVars == <<jiraVars, slackVars, bbVars>>
svcVars == <<svcPhase, svcEnv, svcMonitors, running, svcThreads, worker, svcPolls>>
vars == <<now, requests, revisions, lastCall, sla_alerts, slaTicks, slaCall, slaPosts,
          processed_mentions, processed_messages, txn, markCalls, markRaised,
          jira_comments, jira_authors, jira_last_check, jiraEvents, jiraDelivered,
          jiraFailed, jiraPoll, jiraBranch, slack_messages, tracked_threads, slackEvents,
          slackEffects, slackQuiet, slackPolls, slackPoll,
          bb_comments, processed_pr_comments, bb_last_check, bbPoll,
          svcPhase, svcEnv, svcMonitors, running, svcThreads, worker, svcPolls>>

----------------------------------------------------------------------------
(* Small value sets the operations draw their inputs from.                 *)

Sources == {"slack", "jira"}
StoreSourceIds == {"T1"}
StoreRequestTypes == {"bug"}
RequestTypes == {"story", "bug", "epic"}
Drafts == {"draft_a", "draft_b"}
Feedbacks == {"fb"}
NoKey == "none"
TicketKeys == {"ECD-1"}
NoCall == [op |-> "none"]

Max(S) == CHOOSE x \in S : \A y \in S : y <= x

\* INSERT OR REPLACE of one row of a table keyed by its primary key
SetRow(table, key, value) ==
    [k \in DOMAIN table \cup {key} |-> IF k = key THEN value ELSE table[k]]

\* inputs of the ledger calls
Callers == {1, 2}
IssueKeys == {"ECD-1"}
CommentIds == 1..2
SlackTs == 1..2
Responses == {"", "On it"}
LedgerKeys == ({"jira"} \X (IssueKeys \X CommentIds)) \cup ({"slack"} \X SlackTs)

----------------------------------------------------------------------------
(* The state after construction: empty tables, the clock at its start.     *)

Init ==
    /\ now = 1
    /\ requests = <<>>
    /\ revisions = EmptyBag
    /\ lastCall = NoCall
    /\ sla_alerts = << >>
    /\ slaTicks = 0
    /\ slaCall = NoCall
    /\ slaPosts = <<>>
    /\ processed_mentions = EmptyBag
    /\ processed_messages = EmptyBag
    /\ txn = [c \in Callers |-> NoCall]
    /\ markCalls = [k \in LedgerKeys |-> 0]
    /\ markRaised = FALSE
    /\ jira_comments = <<>>
    /\ jira_authors = <<>>
    /\ jira_last_check = 0
    /\ jiraEvents = <<>>
    /\ jiraDelivered = {}
    /\ jiraFailed = {}
    /\ jiraPoll = NoCall
    /\ jiraBranch = NoCall
    /\ slack_messages = <<>>
    /\ tracked_threads = << >>
    /\ slackEvents = <<>>
    /\ slackEffects = << >>
    /\ slackQuiet = FALSE
    /\ slackPolls = 0
    /\ slackPoll = NoCall
    /\ bb_comments = [repo \in {"citemed_web", "word_addon"} |-> <<>>]
    /\ processed_pr_comments = EmptyBag
    /\ bb_last_check = << >>
    /\ bbPoll = NoCall
    /\ svcPhase = "new"
    /\ svcEnv = {}
    /\ svcMonitors = {}
    /\ running = FALSE
    /\ svcThreads = {}
    /\ worker = << >>
    /\ svcPolls = 0

Tick ==
    /\ now < MaxClock
    /\ now' = now + 1
    /\ UNCHANGED <<svcVars, storeVars, slaVars, ledgerVars, callerVars, connVars>>

----------------------------------------------------------------------------
(* Approval workflow store: PMRequestsDB.                                  *)

\* PMRequestsDB.create_request: INSERT the request row in 'pending' and its
\* revision 1; the request_id is a fresh uuid4 (here: the new rowid).
NewRequestId(reqs) == Len(reqs) + 1

CreateRequestRows(reqs, source, source_id, request_type, draft, t) ==
    Append(reqs, [source |-> source, source_id |-> source_id,
                  request_type |-> request_type, draft_content |-> draft,
                  status |-> "pending", jira_ticket_key |-> NoKey,
                  created_at |-> t, approved_at |-> 0, created_ticket_at |-> 0])

\* (mutant) the initial draft is stored as revision 0
CreateRequestRevisionsZero(revs, rid, draft) ==
    revs (+) SetToBag({[request_id |-> rid, revision_number |-> 0,
                        draft_content |-> draft, feedback |-> "none"]})

CreateRequestRevisions(revs, rid, draft) ==
    revs (+) SetToBag({[request_id |-> rid, revision_number |-> 1,
                        draft_content |-> draft, feedback |-> "none"]})

\* PMRequestsDB.get_request
GetRequest(reqs, rid) == IF rid \in DOMAIN reqs THEN reqs[rid] ELSE NoCall

\* PMRequestsDB.update_request_status: three UPDATE statements chosen by the
\* new status; none of them reads the current status.
UpdateRequestStatus(reqs, rid, status, key, t) ==
    IF rid \notin DOMAIN reqs THEN reqs
    ELSE IF status = "approved"
         THEN [reqs EXCEPT ![rid].status = status, ![rid].approved_at = t]
    ELSE IF status = "created" /\ key # NoKey
         THEN [reqs EXCEPT ![rid].status = status, ![rid].created_ticket_at = t,
                           ![rid].jira_ticket_key = key]
    ELSE [reqs EXCEPT ![rid].status = status]

\* PMRequestsDB.get_revisions (ORDER BY revision_number is irrelevant to a set)
RevisionRows(revs, rid) == {r \in BagToSet(revs) : r.request_id = rid}

RevisionNumbers(revs, rid) == {r.revision_number : r \in RevisionRows(revs, rid)}

\* (mutant) the MAX is stored again without the increment
NextRevisionNumberNoIncrement(revs, rid) ==
    IF RevisionNumbers(revs, rid) = {} THEN 1 ELSE Max(RevisionNumbers(revs, rid))

\* PMRequestsDB.add_revision: SELECT MAX(revision_number) ... or 0, plus one.
NextRevisionNumber(revs, rid) ==
    (IF RevisionNumbers(revs, rid) = {} THEN 0 ELSE Max(RevisionNumbers(revs, rid))) + 1

\* PMRequestsDB.add_revision: INSERT the revision row.
AddRevisionRows(revs, rid, draft, feedback) ==
    revs (+) SetToBag({[request_id |-> rid,
                        revision_number |-> NextRevisionNumber(revs, rid),
                        draft_content |-> draft, feedback |-> feedback]})

\* (mutant) the UPDATE sets the status only
AddRevisionRequestsStatusOnly(reqs, rid, draft) ==
    IF rid \notin DOMAIN reqs THEN reqs
    ELSE [reqs EXCEPT ![rid].status = "pending"]

\* PMRequestsDB.add_revision: UPDATE the request row: new draft, status 'pending'.
AddRevisionRequests(reqs, rid, draft) ==
    IF rid \notin DOMAIN reqs THEN reqs
    ELSE [reqs EXCEPT ![rid].draft_content = draft, ![rid].status = "pending"]

----------------------------------------------------------------------------
(* Orchestrator handlers, as the change they make to the store and the     *)
(* result dict they return.  `out` is what the reasoning service did.      *)

\* ClaudeCodeOrchestrator.handle_pm_approval: no status check; on an issue key
\* in the response the row goes straight to 'created'.
ApprovalOutcomes == {"key", "nokey", "raise"}

HandlePmApproval(rid, out) ==
    IF rid \notin DOMAIN requests
    THEN /\ UNCHANGED <<requests, revisions>>
         /\ lastCall' = [op |-> "approve", rid |-> rid, success |-> FALSE]
    ELSE /\ requests' = IF out = "key"
                        THEN UpdateRequestStatus(requests, rid, "created",
                                                 CHOOSE k \in TicketKeys : TRUE, now)
                        ELSE requests
         /\ UNCHANGED revisions
         /\ lastCall' = [op |-> "approve", rid |-> rid, success |-> (out = "key")]

\* ClaudeCodeOrchestrator.handle_pm_revision: no status check; stores the
\* revised draft through add_revision unless the reasoning call raises.
RevisionOutcomes == {"ok", "raise"}

HandlePmRevision(rid, feedback, draft, out) ==
    IF rid \notin DOMAIN requests
    THEN /\ UNCHANGED <<requests, revisions>>
         /\ lastCall' = [op |-> "revise", rid |-> rid, success |-> FALSE]
    ELSE IF out = "ok"
    THEN /\ revisions' = AddRevisionRows(revisions, rid, draft, feedback)
         /\ requests' = AddRevisionRequests(requests, rid, draft)
         /\ lastCall' = [op |-> "revise", rid |-> rid, success |-> TRUE,
                         revision_number |-> NextRevisionNumber(revisions, rid)]
    ELSE /\ UNCHANGED <<requests, revisions>>
         /\ lastCall' = [op |-> "revise", rid |-> rid, success |-> FALSE]

\* ClaudeCodeOrchestrator.handle_pm_cancellation: no status check.
HandlePmCancellation(rid) ==
    IF rid \notin DOMAIN requests
    THEN /\ UNCHANGED <<requests, revisions>>
         /\ lastCall' = [op |-> "cancel", rid |-> rid, success |-> FALSE]
    ELSE /\ requests' = UpdateRequestStatus(requests, rid, "cancelled", NoKey, now)
         /\ UNCHANGED revisions
         /\ lastCall' = [op |-> "cancel", rid |-> rid, success |-> TRUE]

----------------------------------------------------------------------------
(* Processed-item ledgers.  A table is a bag of rows; the PRIMARY KEY is   *)
(* enforced by the INSERT statement's conflict clause, as SQLite does.     *)

\* SQLite INSERT [OR IGNORE | OR REPLACE] of `row` into a table with a
\* PRIMARY KEY, `conflicting` being the rows that already hold the row's key:
\* the new table and whether the statement raised (IntegrityError).
SqlInsert(table, row, conflicting, onConflict) ==
    IF conflicting = {}
    THEN [rows |-> table (+) SetToBag({row}), raised |-> FALSE]
    ELSE IF onConflict = "IGNORE" THEN [rows |-> table, raised |-> FALSE]
    ELSE IF onConflict = "REPLACE"
    THEN [rows |-> [r \in BagToSet(table) \ conflicting |-> table[r]]
                      (+) SetToBag({row}),
          raised |-> FALSE]
    ELSE [rows |-> table, raised |-> TRUE]

\* processed_mentions: PRIMARY KEY (issue_key, comment_id)
MentionRows(table, issue_key, comment_id) ==
    {r \in BagToSet(table) : r.issue_key = issue_key /\ r.comment_id = comment_id}

\* processed_messages: ts TEXT PRIMARY KEY
MessageRows(table, ts) == {r \in BagToSet(table) : r.ts = ts}

\* JiraMonitor.is_processed
JiraIsProcessed(table, issue_key, comment_id) ==
    MentionRows(table, issue_key, comment_id) # {}

\* (mutant) a plain INSERT, without OR IGNORE
JiraMarkProcessedPlainInsert(table, issue_key, comment_id) ==
    SqlInsert(table, [issue_key |-> issue_key, comment_id |-> comment_id],
              MentionRows(table, issue_key, comment_id), "ABORT")

\* JiraMonitor.mark_processed: INSERT OR IGNORE
JiraMarkProcessed(table, issue_key, comment_id) ==
    SqlInsert(table, [issue_key |-> issue_key, comment_id |-> comment_id],
              MentionRows(table, issue_key, comment_id), "IGNORE")

\* SlackMonitor.is_processed
SlackIsProcessed(table, ts) == MessageRows(table, ts) # {}

\* SlackMonitor.mark_processed: INSERT OR REPLACE (ts, channel, response)
SlackMarkProcessed(table, ts, response) ==
    SqlInsert(table, [ts |-> ts, response |-> response],
              MessageRows(table, ts), "REPLACE")

\* Two callers mark items concurrently.  A call opens a connection, executes
\* its INSERT inside an implicit write transaction (SQLite lets one writer in
\* at a time) and commits when the `with` block ends.
NoWriter == \A c \in Callers : txn[c] = NoCall

MarkExecute(c) ==
    /\ txn[c] = NoCall
    /\ NoWriter
    /\ \E k \in LedgerKeys :
          /\ markCalls[k] < MaxMarkCalls
          /\ IF k[1] = "jira"
             THEN txn' = [txn EXCEPT ![c] =
                     [op |-> "mark", key |-> k,
                      res |-> JiraMarkProcessed(processed_mentions, k[2][1], k[2][2])]]
             ELSE \E resp \in Responses :
                     txn' = [txn EXCEPT ![c] =
                        [op |-> "mark", key |-> k,
                         res |-> SlackMarkProcessed(processed_messages, k[2], resp)]]
    /\ UNCHANGED <<svcVars, now, storeVars, slaVars, ledgerVars, markCalls, markRaised, connVars>>

MarkCommit(c) ==
    /\ txn[c] # NoCall
    /\ IF txn[c].key[1] = "jira"
       THEN /\ processed_mentions' = txn[c].res.rows
            /\ UNCHANGED processed_messages
       ELSE /\ processed_messages' = txn[c].res.rows
            /\ UNCHANGED processed_mentions
    /\ markRaised' = (markRaised \/ txn[c].res.raised)
    /\ markCalls' = [markCalls EXCEPT ![txn[c].key] = @ + 1]
    /\ txn' = [txn EXCEPT ![c] = NoCall]
    /\ UNCHANGED <<svcVars, now, storeVars, slaVars, connVars>>

NextLedger == \E c \in Callers : MarkExecute(c) \/ MarkCommit(c)

SpecLedger == Init /\ [][NextLedger]_vars

----------------------------------------------------------------------------
(* SLA alert tracker: scripts/utilities/sla_alert_tracker.py.  The clock   *)
(* counts hours.                                                           *)

CooldownHours == 24

SlaItems == {"PR-114"}
SlaTypes == {"pr_stale", "comment_response"}
SlaLevels == 1..MaxLevel
SlaThreads == {"none", "1234567890.123456"}
Violations == [item_id : SlaItems, type : SlaTypes, escalation_level : SlaLevels]

\* violation_id = f"{item_id}_{type}"
ViolationId(v) == v.item_id \o "_" \o v.type

\* (mutant) the escalation test is >= instead of >
ShouldAlertSameLevel(v) ==
    IF ViolationId(v) \notin DOMAIN sla_alerts THEN TRUE
    ELSE LET row == sla_alerts[ViolationId(v)]
             hours_since_alert == now - row.last_alerted_at
         IN  IF v.escalation_level >= row.current_escalation_level THEN TRUE
             ELSE IF hours_since_alert >= CooldownHours THEN TRUE
             ELSE FALSE

\* (mutant) the cooldown is tested before the escalation, and decides alone
ShouldAlertCooldownFirst(v) ==
    IF ViolationId(v) \notin DOMAIN sla_alerts THEN TRUE
    ELSE LET row == sla_alerts[ViolationId(v)]
             hours_since_alert == now - row.last_alerted_at
         IN  IF hours_since_alert < CooldownHours THEN FALSE
             ELSE TRUE

\* (mutant) the cooldown test is > instead of >=
ShouldAlertAfterCooldown(v) ==
    IF ViolationId(v) \notin DOMAIN sla_alerts THEN TRUE
    ELSE LET row == sla_alerts[ViolationId(v)]
             hours_since_alert == now - row.last_alerted_at
         IN  IF v.escalation_level > row.current_escalation_level THEN TRUE
             ELSE IF hours_since_alert > CooldownHours THEN TRUE
             ELSE FALSE

\* should_alert_violation: no row -> True; level above the recorded one ->
\* True; 24 hours or more since last_alerted_at -> True; otherwise False.
ShouldAlertIn(alerts, t, v) ==
    IF ViolationId(v) \notin DOMAIN alerts THEN TRUE
    ELSE LET row == alerts[ViolationId(v)]
             hours_since_alert == t - row.last_alerted_at
         IN  IF v.escalation_level > row.current_escalation_level THEN TRUE
             ELSE IF hours_since_alert >= CooldownHours THEN TRUE
             ELSE FALSE

\* should_alert_violation on the table and the clock as they are
ShouldAlertViolation(v) == ShouldAlertIn(sla_alerts, now, v)

\* (mutant) the UPDATE leaves last_alerted_at as it was
RecordAlertStaleTime(alerts, v, thread, t) ==
    LET vid == ViolationId(v) IN
    IF vid \in DOMAIN alerts
    THEN [alerts EXCEPT ![vid] =
            [@ EXCEPT !.alert_count = @ + 1,
                      !.current_escalation_level = v.escalation_level,
                      !.slack_thread_ts = IF thread # "none" THEN thread ELSE @]]
    ELSE [x \in DOMAIN alerts \cup {vid} |->
            IF x = vid
            THEN [item_id |-> v.item_id, violation_type |-> v.type,
                  last_alerted_at |-> t, alert_count |-> 1,
                  current_escalation_level |-> v.escalation_level,
                  slack_thread_ts |-> thread]
            ELSE alerts[x]]

\* record_alert: UPDATE the existing row (count + 1, level := incoming,
\* thread := COALESCE(incoming, stored)) or INSERT a new one with count 1.
RecordAlert(alerts, v, thread, t) ==
    LET vid == ViolationId(v) IN
    IF vid \in DOMAIN alerts
    THEN [alerts EXCEPT ![vid] =
            [@ EXCEPT !.last_alerted_at = t,
                      !.alert_count = @ + 1,
                      !.current_escalation_level = v.escalation_level,
                      !.slack_thread_ts = IF thread # "none" THEN thread ELSE @]]
    ELSE [x \in DOMAIN alerts \cup {vid} |->
            IF x = vid
            THEN [item_id |-> v.item_id, violation_type |-> v.type,
                  last_alerted_at |-> t, alert_count |-> 1,
                  current_escalation_level |-> v.escalation_level,
                  slack_thread_ts |-> thread]
            ELSE alerts[x]]

\* (mutant) the DELETE compares violation_id, not item_id, with the item ids
ClearResolvedByViolationId(alerts, item_ids) ==
    [x \in {y \in DOMAIN alerts : y \notin item_ids} |-> alerts[x]]

\* clear_resolved_violations: DELETE ... WHERE item_id IN (item_ids)
ClearResolvedViolations(alerts, item_ids) ==
    [x \in {y \in DOMAIN alerts : alerts[y].item_id \notin item_ids} |-> alerts[x]]

CallShouldAlert ==
    /\ \E v \in Violations :
          slaCall' = [op |-> "should_alert", violation |-> v,
                      result |-> ShouldAlertViolation(v)]
    /\ UNCHANGED <<svcVars, now, storeVars, sla_alerts, slaTicks, slaPosts, ledgerVars, callerVars, connVars>>

CallRecordAlert ==
    /\ \E v \in Violations, th \in SlaThreads :
          /\ ViolationId(v) \in DOMAIN sla_alerts =>
                sla_alerts[ViolationId(v)].alert_count < MaxAlertCount
          /\ sla_alerts' = RecordAlert(sla_alerts, v, th, now)
          /\ slaCall' = [op |-> "record_alert", violation |-> v]
    /\ UNCHANGED <<svcVars, now, storeVars, slaTicks, slaPosts, ledgerVars, callerVars, connVars>>

CallClearResolved ==
    /\ \E ids \in SUBSET SlaItems :
          /\ ids # {}
          /\ sla_alerts' = ClearResolvedViolations(sla_alerts, ids)
          /\ slaCall' = [op |-> "clear_resolved", item_ids |-> ids,
                         deleted |-> DOMAIN sla_alerts
                                       \ DOMAIN ClearResolvedViolations(sla_alerts, ids)]
    /\ UNCHANGED <<svcVars, now, storeVars, slaTicks, slaPosts, ledgerVars, callerVars, connVars>>

\* time passes between calls: one hour, or one hour short of the cooldown
SlaTick ==
    /\ slaTicks < MaxSlaTicks
    /\ \E d \in {1, CooldownHours - 1} : now' = now + d
    /\ slaTicks' = slaTicks + 1
    /\ slaCall' = NoCall
    /\ UNCHANGED <<svcVars, storeVars, sla_alerts, slaPosts, ledgerVars, callerVars, connVars>>

NextSla == CallShouldAlert \/ CallRecordAlert \/ CallClearResolved \/ SlaTick

SpecSla == Init /\ [][NextSla]_vars

----------------------------------------------------------------------------
(* SpecSlaRun: SLA check runs over one tracked item and violation type.    *)
(* Each run hands its violations to post_violations_to_slack; hours pass   *)
(* between runs.  The sqlite                                               *)
(* statements succeed, as everywhere in this model, so the handlers around *)
(* record_alert and the thread registration are not entered; the           *)
(* chat.postMessage call can be refused or fail.                           *)

SlaSeverities == {"critical", "warning"}
RunTypes == {"pr_stale"}
RunViolations ==
    [item_id : SlaItems, type : RunTypes, escalation_level : SlaLevels,
     severity : SlaSeverities]

\* the items in the order Python compares their ids
SlaItemOrder == <<"PR-114">>
SlaItemRank(item) == CHOOSE i \in 1..Len(SlaItemOrder) : SlaItemOrder[i] = item

\* key=lambda v: (0 if v.get("severity") == "critical" else 1, v.get("item_id", ""))
SlaSortBefore(a, b) ==
    LET ka == IF a.severity = "critical" THEN 0 ELSE 1
        kb == IF b.severity = "critical" THEN 0 ELSE 1
    IN  \/ ka < kb
        \/ ka = kb /\ SlaItemRank(a.item_id) < SlaItemRank(b.item_id)

\* sorted(violations, key=...): stable, so equal keys keep their order
RECURSIVE SlaInsertSorted(_, _)
SlaInsertSorted(sorted, v) ==
    IF sorted = <<>> THEN <<v>>
    ELSE IF SlaSortBefore(v, sorted[Len(sorted)])
         THEN Append(SlaInsertSorted(SubSeq(sorted, 1, Len(sorted) - 1), v),
                     sorted[Len(sorted)])
         ELSE Append(sorted, v)

RECURSIVE SlaSorted(_)
SlaSorted(violations) ==
    IF violations = <<>> THEN <<>>
    ELSE SlaInsertSorted(SlaSorted(SubSeq(violations, 1, Len(violations) - 1)),
                         violations[Len(violations)])

\* what chat.postMessage does: accepts, answers ok = false, or raises
SlaPostOutcomes == {"ok", "not_ok", "raise"}

\* the thread_ts Slack returns for an accepted alert
SlaPostedTs == "1234567890.123456"

\* (mutant) the alert is recorded before the answer of the post is looked at
RECURSIVE SlaPostFromRecordFirst(_, _, _, _, _, _, _)
SlaPostFromRecordFirst(alerts, posts, tracked, sorted, outs, i, t) ==
    IF i > Len(sorted)
    THEN [alerts |-> alerts, posts |-> posts, tracked |-> tracked, failed |-> {}]
    ELSE LET v == sorted[i] IN
         IF ~ShouldAlertIn(alerts, t, v)
         THEN SlaPostFromRecordFirst(alerts, posts, tracked, sorted, outs, i + 1, t)
         ELSE IF outs[i] = "raise"
         THEN [alerts |-> alerts, posts |-> posts, tracked |-> tracked, failed |-> {ViolationId(v)}]
         ELSE IF outs[i] = "not_ok"
         THEN LET r == SlaPostFromRecordFirst(RecordAlert(alerts, v, "none", t), posts,
                                              tracked, sorted, outs, i + 1, t)
              IN  [r EXCEPT !.failed = @ \cup {ViolationId(v)}]
         ELSE SlaPostFromRecordFirst(RecordAlert(alerts, v, SlaPostedTs, t),
                          Append(posts, [violation_id |-> ViolationId(v),
                                         escalation_level |-> v.escalation_level,
                                         at |-> t]),
                          SetRow(tracked, SlaPostedTs, 0),
                          sorted, outs, i + 1, t)

\* the loop of post_violations_to_slack from position i: skip what
\* should_alert_violation refuses; post; on ok record_alert and register the
\* thread with last_checked_ts "0"; on ok = false go on; an exception leaves
\* the loop.  Yields the alerts table, the accepted posts, the threads and
\* the violation_ids whose post was not accepted.
RECURSIVE SlaPostFrom(_, _, _, _, _, _, _)
SlaPostFrom(alerts, posts, tracked, sorted, outs, i, t) ==
    IF i > Len(sorted)
    THEN [alerts |-> alerts, posts |-> posts, tracked |-> tracked, failed |-> {}]
    ELSE LET v == sorted[i] IN
         IF ~ShouldAlertIn(alerts, t, v)
         THEN SlaPostFrom(alerts, posts, tracked, sorted, outs, i + 1, t)
         ELSE IF outs[i] = "raise"
         THEN [alerts |-> alerts, posts |-> posts, tracked |-> tracked, failed |-> {ViolationId(v)}]
         ELSE IF outs[i] = "not_ok"
         THEN LET r == SlaPostFrom(alerts, posts, tracked, sorted, outs, i + 1, t)
              IN  [r EXCEPT !.failed = @ \cup {ViolationId(v)}]
         ELSE SlaPostFrom(RecordAlert(alerts, v, SlaPostedTs, t),
                          Append(posts, [violation_id |-> ViolationId(v),
                                         escalation_level |-> v.escalation_level,
                                         at |-> t]),
                          SetRow(tracked, SlaPostedTs, 0),
                          sorted, outs, i + 1, t)

\* post_violations_to_slack(violations), called by a run that found some
PostViolationsToSlack ==
    /\ Len(slaPosts) < MaxSlaPosts
    /\ \E n \in 1..MaxRunViolations :
       \E violations \in [1..n -> RunViolations], outs \in [1..n -> SlaPostOutcomes] :
          LET r == SlaPostFrom(sla_alerts, slaPosts, tracked_threads,
                               SlaSorted(violations), outs, 1, now)
          IN  /\ sla_alerts' = r.alerts
              /\ slaPosts' = r.posts
              /\ tracked_threads' = r.tracked
              /\ slaCall' = [op |-> "run", failed |-> r.failed]
    /\ UNCHANGED <<svcVars, now, storeVars, slaTicks, ledgerVars, callerVars, jiraVars, bbVars,
                   slack_messages, slackEvents, slackEffects, slackQuiet,
                   slackPolls, slackPoll>>

NextSlaRun == PostViolationsToSlack \/ SlaTick

SpecSlaRun == Init /\ [][NextSlaRun]_vars

----------------------------------------------------------------------------
(* SpecStore: the store driven directly through its operations, one call   *)
(* at a time, in any order and on any request.                             *)

CallCreateRequest ==
    /\ Len(requests) < StoreMaxRequests
    /\ BagCardinality(revisions) < StoreMaxRevisionRows
    /\ \E s \in Sources, sid \in StoreSourceIds, ty \in StoreRequestTypes, d \in Drafts :
          /\ requests' = CreateRequestRows(requests, s, sid, ty, d, now)
          /\ revisions' = CreateRequestRevisions(revisions, NewRequestId(requests), d)
          /\ lastCall' = [op |-> "create", rid |-> NewRequestId(requests), success |-> TRUE]
    /\ UNCHANGED <<svcVars, now, slaVars, ledgerVars, callerVars, connVars>>

CallApprove ==
    /\ \E rid \in 1..StoreMaxRequests, out \in ApprovalOutcomes : HandlePmApproval(rid, out)
    /\ UNCHANGED <<svcVars, now, slaVars, ledgerVars, callerVars, connVars>>

CallRequestChanges ==
    /\ \E rid \in 1..StoreMaxRequests, f \in Feedbacks, d \in Drafts, out \in RevisionOutcomes :
          /\ BagCardinality(revisions) < StoreMaxRevisionRows
          /\ HandlePmRevision(rid, f, d, out)
    /\ UNCHANGED <<svcVars, now, slaVars, ledgerVars, callerVars, connVars>>

CallCancel ==
    /\ \E rid \in 1..StoreMaxRequests : HandlePmCancellation(rid)
    /\ UNCHANGED <<svcVars, now, slaVars, ledgerVars, callerVars, connVars>>

NextStore == CallCreateRequest \/ CallApprove \/ CallRequestChanges \/ CallCancel

SpecStore == Init /\ [][NextStore]_vars

----------------------------------------------------------------------------
(* Claims about the approval workflow store (SpecStore).                   *)

TerminalStatuses == {"cancelled", "created"}

RevisionRowCount(revs, rid) ==
    BagCardinality([r \in RevisionRows(revs, rid) |-> revs[r]])

\* C8: monotonic revisions.  For every request the stored revision numbers are
\* exactly 1..n, one row each (no gap, no repeat), after any sequence of
\* create_request / request_changes / approve / cancel calls; and the number a
\* successful request_changes returns is the new maximum, i.e. the previous
\* maximum plus one.
C8_MonotonicRevisions ==
    /\ \A rid \in DOMAIN requests :
          /\ RevisionNumbers(revisions, rid) = 1..RevisionRowCount(revisions, rid)
          /\ RevisionRowCount(revisions, rid) >= 1
    /\ (lastCall.op = "revise" /\ lastCall.success) =>
          /\ lastCall.revision_number = Max(RevisionNumbers(revisions, lastCall.rid))
          /\ lastCall.revision_number >= 2

\* C8 witness: a request holding revisions {1,2} received request_changes and
\* the call returned 3.
C8_Witness ==
    /\ lastCall.op = "revise" /\ lastCall.success
    /\ lastCall.revision_number = 3
    /\ RevisionNumbers(revisions, lastCall.rid) = {1, 2, 3}

\* C9: terminal-state immutability.  Once a request is cancelled or created, no
\* later approve / request_changes / cancel call changes its status or appends
\* a revision to it.
C9_TerminalImmutable ==
    [][\A rid \in DOMAIN requests :
          requests[rid].status \in TerminalStatuses =>
             /\ requests'[rid].status = requests[rid].status
             /\ RevisionRowCount(revisions', rid) = RevisionRowCount(revisions, rid)]_vars

\* C17: approval is two transitions.  A request becomes created only from
\* approved, never directly from pending, and every created request has
\* approved_at set.
C17_CreatedOnlyFromApproved ==
    /\ [](\A rid \in DOMAIN requests :
            requests[rid].status = "created" => requests[rid].approved_at # 0)
    /\ [][\A rid \in DOMAIN requests :
            (requests'[rid].status = "created" /\ requests[rid].status # "created")
                => requests[rid].status = "approved"]_vars

\* C18: when the ticket creation fails after the user approved a pending
\* request (error, timeout, no ticket key), the request's status is approved
\* afterwards, not pending, created or cancelled.
C18_FailureLeavesApproved ==
    [][(/\ lastCall'.op = "approve"
        /\ ~lastCall'.success
        /\ lastCall'.rid \in DOMAIN requests
        /\ requests[lastCall'.rid].status = "pending")
       => requests'[lastCall'.rid].status = "approved"]_vars

\* C19: create_request inserts the request in status pending together with
\* exactly one revision, numbered 1, holding the initial draft, under a
\* request_id no existing request has, and leaves the other requests and
\* their revisions alone; no request exists without its revision 1.
C19_CreateInsertsRevisionOne ==
    /\ [](\A rid \in DOMAIN requests : 1 \in RevisionNumbers(revisions, rid))
    /\ [][lastCall'.op = "create" =>
            LET rid == lastCall'.rid IN
            /\ rid \notin DOMAIN requests
            /\ DOMAIN requests' = DOMAIN requests \cup {rid}
            /\ \A other \in DOMAIN requests :
                  /\ requests'[other] = requests[other]
                  /\ RevisionRows(revisions', other) = RevisionRows(revisions, other)
            /\ requests'[rid].status = "pending"
            /\ RevisionRowCount(revisions', rid) = 1
            /\ \A r \in RevisionRows(revisions', rid) :
                  /\ r.revision_number = 1
                  /\ r.draft_content = requests'[rid].draft_content]_vars

\* C19 witness: a second request was created next to one that already has
\* two revisions; it is pending and has its revision 1 only.
C19_Witness ==
    /\ lastCall.op = "create"
    /\ lastCall.rid = 2
    /\ requests[2].status = "pending"
    /\ RevisionNumbers(revisions, 2) = {1}
    /\ RevisionNumbers(revisions, 1) = {1, 2}

\* C20: each request's draft_content is the draft_content of its
\* highest-numbered revision; request_changes is the only operation that
\* changes the draft of an existing request or of a stored revision.
C20_DraftIsLatestRevision ==
    /\ [](\A rid \in DOMAIN requests :
            \A r \in RevisionRows(revisions, rid) :
               r.revision_number = Max(RevisionNumbers(revisions, rid))
                  => r.draft_content = requests[rid].draft_content)
    /\ [][\A rid \in DOMAIN requests :
            \/ /\ requests'[rid].draft_content = requests[rid].draft_content
               /\ RevisionRows(revisions, rid) \subseteq RevisionRows(revisions', rid)
               /\ \/ RevisionRows(revisions', rid) = RevisionRows(revisions, rid)
                  \/ lastCall'.op = "revise"
            \/ lastCall'.op = "revise" /\ lastCall'.success /\ lastCall'.rid = rid]_vars

\* C20 witness: request_changes replaced the draft of a request by a
\* different one; the request holds the draft of its revision 2, which differs
\* from that of revision 1.
C20_Witness ==
    /\ lastCall.op = "revise" /\ lastCall.success
    /\ RevisionNumbers(revisions, lastCall.rid) = {1, 2}
    /\ \E r1, r2 \in RevisionRows(revisions, lastCall.rid) :
          /\ r1.revision_number = 1 /\ r2.revision_number = 2
          /\ r1.draft_content # r2.draft_content
          /\ requests[lastCall.rid].draft_content = r2.draft_content

\* C22: an invalid transition is a caller error.  approve, request_changes or
\* cancel applied to a request whose status is not pending returns a failure
\* result, never a success result.
C22_InvalidTransitionFails ==
    [][(/\ lastCall'.op \in {"approve", "revise", "cancel"}
        /\ lastCall'.rid \in DOMAIN requests
        /\ requests[lastCall'.rid].status # "pending")
       => ~lastCall'.success]_vars

----------------------------------------------------------------------------
(* Claims about the SLA alert tracker (SpecSla).                           *)

\* C10: alert suppression.  A should_alert call answers false whenever a row
\* exists for the violation_id, the violation's escalation level is not above
\* the recorded one and fewer than 24 hours have passed since last_alerted_at.
C10_Suppressed ==
    slaCall.op = "should_alert" =>
        LET v == slaCall.violation
            vid == v.item_id \o "_" \o v.type
        IN  (/\ vid \in DOMAIN sla_alerts
             /\ v.escalation_level <= sla_alerts[vid].current_escalation_level
             /\ now - sla_alerts[vid].last_alerted_at < 24)
            => slaCall.result = FALSE

\* C10 witness: should_alert is called again right after record_alert for the
\* same violation, same level, no time passed, and answers false.
C10_Witness ==
    /\ slaCall.op = "should_alert"
    /\ slaCall.result = FALSE
    /\ ViolationId(slaCall.violation) \in DOMAIN sla_alerts
    /\ sla_alerts[ViolationId(slaCall.violation)].last_alerted_at = now
    /\ sla_alerts[ViolationId(slaCall.violation)].current_escalation_level
          = slaCall.violation.escalation_level

\* C11: escalation breaks the cooldown.  A should_alert call answers true
\* whenever a row exists for the violation_id and the violation's escalation
\* level is above the recorded one, whatever the time since last_alerted_at.
C11_EscalationBreaksCooldown ==
    slaCall.op = "should_alert" =>
        LET v == slaCall.violation
            vid == v.item_id \o "_" \o v.type
        IN  (/\ vid \in DOMAIN sla_alerts
             /\ v.escalation_level > sla_alerts[vid].current_escalation_level)
            => slaCall.result = TRUE

\* C11 witness: should_alert is called with a higher level in the very hour
\* the alert was recorded, and answers true.
C11_Witness ==
    /\ slaCall.op = "should_alert"
    /\ slaCall.result = TRUE
    /\ ViolationId(slaCall.violation) \in DOMAIN sla_alerts
    /\ sla_alerts[ViolationId(slaCall.violation)].last_alerted_at = now
    /\ sla_alerts[ViolationId(slaCall.violation)].current_escalation_level
          < slaCall.violation.escalation_level

C24_ClearedStartsFresh ==
    /\ [](/\ (slaCall.op = "should_alert"
               /\ ViolationId(slaCall.violation) \notin DOMAIN sla_alerts)
              => slaCall.result = TRUE
          /\ slaCall.op = "clear_resolved" =>
                /\ \A vid \in DOMAIN sla_alerts :
                      sla_alerts[vid].item_id \notin slaCall.item_ids
                /\ \A v \in Violations :
                      v.item_id \in slaCall.item_ids => ShouldAlertViolation(v))
    /\ [][(/\ slaCall'.op = "record_alert"
            /\ ViolationId(slaCall'.violation) \notin DOMAIN sla_alerts)
           => LET row == sla_alerts'[ViolationId(slaCall'.violation)]
              IN  /\ row.alert_count = 1
                  /\ row.current_escalation_level = slaCall'.violation.escalation_level
                  /\ row.last_alerted_at = now']_vars

\* C24 witness: clear_resolved has just deleted the records of both violation
\* types of the item, and should_alert now answers true for every violation
\* on it.
C24_Witness ==
    /\ slaCall.op = "clear_resolved"
    /\ slaCall.deleted = {"PR-114_pr_stale", "PR-114_comment_response"}
    /\ sla_alerts = << >>
    /\ \A v \in Violations : ShouldAlertViolation(v)

\* C23: record_alert keeps the maximum.  After any sequence of record_alert
\* calls for a violation_id the stored current_escalation_level is the highest
\* level recorded for it since the record was created.  Stated over check
\* runs, where every accepted post is recorded and no record is deleted.
C23_LevelIsMaximum ==
    \A vid \in DOMAIN sla_alerts :
        sla_alerts[vid].current_escalation_level =
            Max({slaPosts[i].escalation_level :
                    i \in {j \in 1..Len(slaPosts) : slaPosts[j].violation_id = vid}})

----------------------------------------------------------------------------
(* Claims about the processed-item ledgers (SpecLedger).                   *)

LedgerIsProcessed(k) ==
    IF k[1] = "jira" THEN JiraIsProcessed(processed_mentions, k[2][1], k[2][2])
    ELSE SlackIsProcessed(processed_messages, k[2])

LedgerRowCount(k) ==
    IF k[1] = "jira"
    THEN BagCardinality([r \in MentionRows(processed_mentions, k[2][1], k[2][2])
                           |-> processed_mentions[r]])
    ELSE BagCardinality([r \in MessageRows(processed_messages, k[2])
                           |-> processed_messages[r]])

\* C7: dedup uniqueness.  However often, and from however many callers,
\* mark_processed(s, k) is called, the ledger holds at most one row for
\* (s, k), no call raises, and is_processed(s, k) is true once the first call
\* has returned.
C7_DedupUnique ==
    /\ ~markRaised
    /\ \A k \in LedgerKeys :
          /\ LedgerRowCount(k) <= 1
          /\ markCalls[k] >= 1 => LedgerIsProcessed(k)

\* C7 witness: mark_processed returned twice for one key of each ledger and
\* each key has its single row.
C7_Witness ==
    \E j \in {"jira"} \X (IssueKeys \X CommentIds), m \in {"slack"} \X SlackTs :
        /\ markCalls[j] = 2 /\ LedgerRowCount(j) = 1
        /\ markCalls[m] = 2 /\ LedgerRowCount(m) = 1

----------------------------------------------------------------------------
(* Comment and message text.  A text is a sequence of tokens, a token being *)
(* a word or one of the phrases the parsers search for; "pattern occurs in *)
(* the text" is "some token of the text is the pattern".                   *)

NoText == <<>>
Min(S) == CHOOSE x \in S : \A y \in S : x <= y
Contains(text, patterns) == \E i \in DOMAIN text : text[i] \in patterns

\* ClaudeCodeOrchestrator.parse_approval_response: approval patterns first,
\* then change patterns (the feedback is what follows the keyword and must
\* not be empty), then cancel patterns.
\* (the two glyphs are written as their code points: U+2705 is the white
\* check mark, U+274C the cross mark)
ApprovalPatterns == {"approved", "approve", "looks good", "go ahead", "U+2705"}
ChangePatterns == << {"changes:", "change:"}, {"revise:", "revis:"}, {"update:"},
                     {"modify:"}, {"please change"} >>
CancelPatterns == {"cancel", "discard", "never mind", "don't create", "dont create",
                   "U+274C"}

\* str.lower() on a token: the tokens written with capitals, and what they
\* become; every other token of the model is lower case already
UpperTokens == {"Approved", "Cancel", "Fix the Typo"}
LowerToken(token) ==
    IF token = "Approved" THEN "approved"
    ELSE IF token = "Cancel" THEN "cancel"
    ELSE IF token = "Fix the Typo" THEN "fix the typo"
    ELSE token
Lower(text) == [i \in DOMAIN text |-> LowerToken(text[i])]

ChangeMatches(text, k) ==
    {i \in DOMAIN text : text[i] \in ChangePatterns[k] /\ i < Len(text)}

\* (mutant) the feedback is the whole match, keyword included
ParseApprovalResponseWholeMatch(comment_text) ==
    LET text == Lower(comment_text) IN
    IF Contains(text, ApprovalPatterns)
    THEN [response_type |-> "approved", feedback |-> NoText]
    ELSE IF \E k \in DOMAIN ChangePatterns : ChangeMatches(text, k) # {}
    THEN LET k == Min({j \in DOMAIN ChangePatterns : ChangeMatches(text, j) # {}})
             i == Min(ChangeMatches(text, k))
         IN [response_type |-> "changes", feedback |-> SubSeq(text, i, Len(text))]
    ELSE IF Contains(text, CancelPatterns)
    THEN [response_type |-> "cancel", feedback |-> NoText]
    ELSE [response_type |-> "none", feedback |-> NoText]

ParseApprovalResponse(comment_text) ==
    LET text == Lower(comment_text) IN
    IF Contains(text, ApprovalPatterns)
    THEN [response_type |-> "approved", feedback |-> NoText]
    ELSE IF \E k \in DOMAIN ChangePatterns : ChangeMatches(text, k) # {}
    THEN LET k == Min({j \in DOMAIN ChangePatterns : ChangeMatches(text, j) # {}})
             i == Min(ChangeMatches(text, k))
         IN [response_type |-> "changes", feedback |-> SubSeq(text, i + 1, Len(text))]
    ELSE IF Contains(text, CancelPatterns)
    THEN [response_type |-> "cancel", feedback |-> NoText]
    ELSE [response_type |-> "none", feedback |-> NoText]

----------------------------------------------------------------------------
(* SpecParser: parse_approval_response applied to a text.                  *)

ParserTokens ==
    {"approved", "approve", "looks good", "go ahead", "U+2705",
     "changes:", "please change", "fix the typo in the title", "Fix the Typo",
     "cancel", "discard", "never mind", "don't create", "U+274C",
     "looks fine to me,", "ship it", "Approved", "Cancel"}
ParserTexts == UNION {[1..n -> ParserTokens] : n \in 1..MaxParserTokens}

CallParseApprovalResponse ==
    /\ lastCall = NoCall
    /\ \E text \in ParserTexts :
          lastCall' = [op |-> "parse", text |-> text,
                       result |-> ParseApprovalResponse(text)]
    /\ UNCHANGED <<svcVars, now, requests, revisions, slaVars, ledgerVars, callerVars, connVars>>

NextParser == CallParseApprovalResponse

SpecParser == Init /\ [][NextParser]_vars

\* C14: the parser answers approved for a text that is the word approve or
\* approved, "looks good", "go ahead" or the check mark; changes with the
\* feedback "fix the typo in the title" for "changes: fix the typo in the
\* title"; cancel for a text that is cancel, discard, never mind, don't
\* create or the cross mark; and none for a text without any of the
\* configured phrases and glyphs, such as "looks fine to me, ship it".
C14_ApprovalParsing ==
    lastCall.op = "parse" =>
        LET text == lastCall.text
            result == lastCall.result
            approvals == {"approved", "approve", "looks good", "go ahead", "U+2705"}
            cancels == {"cancel", "discard", "never mind", "don't create", "U+274C"}
            changes == {"changes:", "change:", "revise:", "revis:", "update:",
                        "modify:", "please change"}
            configured == approvals \cup cancels \cup changes \cup {"dont create"}
        IN  /\ (Len(text) = 1 /\ text[1] \in approvals)
                    => result.response_type = "approved"
            /\ text = <<"changes:", "fix the typo in the title">>
                    => /\ result.response_type = "changes"
                       /\ result.feedback = <<"fix the typo in the title">>
            /\ (Len(text) = 1 /\ text[1] \in cancels)
                    => result.response_type = "cancel"
            /\ (\A i \in DOMAIN text :
                    text[i] \notin configured \cup UpperTokens)
                    => result.response_type = "none"

\* C14 witness: the parser was given "changes: fix the typo in the title"
\* and answered changes with that feedback.
C14_Witness ==
    /\ lastCall.op = "parse"
    /\ lastCall.text = <<"changes:", "fix the typo in the title">>
    /\ lastCall.result.response_type = "changes"
    /\ lastCall.result.feedback = <<"fix the typo in the title">>

\* ClaudeCodeOrchestrator.detect_pm_intent: the type is the last one, in the
\* order story, bug, epic, with a pattern in the text; the confidence (in
\* tenths) is 8 for a pattern holding "create" or "write", else 6.
PmTypeOrder == <<"story", "bug", "epic">>
PmPatterns ==
    [story |-> {"create a story", "write a story", "make a story", "create a ticket",
                "write up a ticket", "file a ticket", "create a feature",
                "new feature", "add feature"},
     bug |-> {"create a bug", "file a bug", "report a bug", "bug report",
              "create a defect", "file a defect", "this is broken", "not working",
              "issue with"},
     epic |-> {"create an epic", "write an epic", "make an epic",
               "strategic initiative", "this should be an epic"}]
CreateOrWritePatterns ==
    {"create a story", "write a story", "create a ticket", "write up a ticket",
     "create a feature", "create a bug", "create a defect", "create an epic",
     "write an epic"}

\* (mutant) a pattern holding "create" or "write" scores 5 (0.5), not 8
DetectPmIntentLowConfidence(text) ==
    LET found == {p \in UNION {PmPatterns[t] : t \in RequestTypes} : Contains(text, {p})}
        types == {k \in DOMAIN PmTypeOrder : found \cap PmPatterns[PmTypeOrder[k]] # {}}
    IN [is_pm_request |-> types # {},
        request_type |-> IF types = {} THEN "none" ELSE PmTypeOrder[Max(types)],
        confidence |-> IF found = {} THEN 0
                       ELSE IF found \cap CreateOrWritePatterns # {} THEN 5 ELSE 6]

DetectPmIntent(text) ==
    LET found == {p \in UNION {PmPatterns[t] : t \in RequestTypes} : Contains(text, {p})}
        types == {k \in DOMAIN PmTypeOrder : found \cap PmPatterns[PmTypeOrder[k]] # {}}
    IN [is_pm_request |-> types # {},
        request_type |-> IF types = {} THEN "none" ELSE PmTypeOrder[Max(types)],
        confidence |-> IF found = {} THEN 0
                       ELSE IF found \cap CreateOrWritePatterns # {} THEN 8 ELSE 6]

\* PMRequestsDB.get_request_by_source: ORDER BY created_at DESC LIMIT 1; rows
\* created in the same clock tick tie, and the query may return any of them.
GetRequestBySource(reqs, source, source_id) ==
    LET matching == {rid \in DOMAIN reqs :
                        reqs[rid].source = source /\ reqs[rid].source_id = source_id}
    IN {rid \in matching :
            \A other \in matching : reqs[other].created_at <= reqs[rid].created_at}

----------------------------------------------------------------------------
(* SpecLookup: requests are created, time passes, and get_request_by_source *)
(* is asked for the request of a (source, source_id).  created_at is the   *)
(* column default CURRENT_TIMESTAMP, one clock tick being one second.      *)

LookupSourceIds == {"T1", "T2"}

\* get_request_by_source, returning the request_id of the row or 0 for None
CallGetRequestBySource ==
    /\ \E s \in Sources, sid \in LookupSourceIds :
          LET found == GetRequestBySource(requests, s, sid)
          IN \E rid \in (IF found = {} THEN {0} ELSE found) :
                lastCall' = [op |-> "get_by_source", source |-> s, source_id |-> sid,
                             rid |-> rid]
    /\ UNCHANGED <<svcVars, now, requests, revisions, slaVars, ledgerVars, callerVars, connVars>>

NextLookup == CallCreateRequest \/ CallGetRequestBySource \/ Tick

SpecLookup == Init /\ [][NextLookup]_vars

\* C21: get_by_source returns the request created last among those of the
\* (source, source_id), however close in time they were created, none when
\* there is no such request, and never a request of another source or
\* source_id.  Requests are numbered in creation order.
C21_LastCreatedReturned ==
    lastCall.op = "get_by_source" =>
        LET matching == {rid \in DOMAIN requests :
                            /\ requests[rid].source = lastCall.source
                            /\ requests[rid].source_id = lastCall.source_id}
        IN  lastCall.rid = (IF matching = {} THEN 0 ELSE Max(matching))

----------------------------------------------------------------------------
\* ClaudeCodeOrchestrator.process_pm_request: whatever the reasoning service
\* returned is stored as the draft of a new pending request.
ProcessPmRequest(source, source_id, request_type, draft) ==
    /\ requests' = CreateRequestRows(requests, source, source_id, request_type, draft, now)
    /\ revisions' = CreateRequestRevisions(revisions, NewRequestId(requests), draft)
    /\ lastCall' = [op |-> "create", rid |-> NewRequestId(requests), success |-> TRUE]

----------------------------------------------------------------------------
(* Jira connector (src/monitors/jira_monitor.py) and the Jira worker loop  *)
(* of the service (src/pm_agent_service.py).  One issue, whose comments    *)
(* carry their creation index as id.                                       *)

JiraIssue == "ECD-1"
JiraMention == "@remington"
\* the accountId of a comment's author: a user, or the account whose API token
\* the service posts with
JiraUserAccount == "user"
JiraServiceAccount == "service"
JiraTexts ==
    {<<JiraMention, "status?">>, <<JiraMention, "create a bug", "login">>,
     <<JiraMention, "approved">>, <<JiraMention, "changes:", "shorter">>,
     <<JiraMention, "cancel">>, <<JiraMention, "go ahead", "create a bug">>,
     <<"status?">>}

\* JiraMonitor._is_service_account_mentioned
JiraIsServiceAccountMentioned(text) == Contains(text, {"@remington", "remington"})

\* JiraMonitor._filter_new_mentions: the events, in comment order
JiraFilterNewMentions(comments, table) ==
    LET all == [i \in DOMAIN comments |->
                  [issue_key |-> JiraIssue, comment_id |-> i, comment_text |-> comments[i]]]
        IsNew(e) == /\ JiraIsServiceAccountMentioned(e.comment_text)
                    /\ ~JiraIsProcessed(table, e.issue_key, e.comment_id)
    IN SelectSeq(all, IsNew)

\* JiraMonitor._filter_new_mentions: mark_processed for each event it appends
RECURSIVE JiraMarkAll(_, _)
JiraMarkAll(table, events) ==
    IF events = <<>> THEN table
    ELSE JiraMarkAll(JiraMarkProcessed(table, Head(events).issue_key,
                                       Head(events).comment_id).rows,
                     Tail(events))

\* a user (or anyone) adds a comment to the issue
JiraUserComments ==
    /\ Len(jira_comments) < JiraMaxComments
    /\ \E text \in JiraTexts : jira_comments' = Append(jira_comments, text)
    /\ jira_authors' = Append(jira_authors, JiraUserAccount)
    /\ UNCHANGED <<svcVars, now, storeVars, slaVars, ledgerVars, callerVars, jira_last_check,
                   jiraEvents, jiraDelivered, jiraFailed, jiraPoll, jiraBranch,
                   slackVars, bbVars>>

\* JiraMonitor.poll_for_mentions, called by the worker once the previous
\* batch is dispatched.  `status` is what the search request came back with.
JiraFetchStatuses == {"200", "429", "500", "timeout"}

JiraPollForMentions ==
    /\ jiraEvents = <<>>
    /\ \E status \in JiraFetchStatuses :
          LET events == IF status = "200"
                        THEN JiraFilterNewMentions(jira_comments, processed_mentions)
                        ELSE <<>>
          IN /\ processed_mentions' = JiraMarkAll(processed_mentions, events)
             /\ jira_last_check' = IF status = "200" THEN now ELSE jira_last_check
             /\ jiraEvents' = events
             /\ jiraPoll' = [op |-> "poll", status |-> status, events |-> events,
                             cursor_before |-> jira_last_check]
    /\ UNCHANGED <<svcVars, now, storeVars, slaVars, processed_messages, callerVars,
                   jira_comments, jira_authors, jiraDelivered, jiraFailed, jiraBranch,
                   slackVars, bbVars>>

\* what the reasoning service returns as a draft
JiraDrafts == {"draft_a"}

\* One iteration of the worker's `for event in events` loop.
JiraPostOutcomes == {"posted", "post_failed", "no_response"}

\* (mutant) the draft-request detection comes first, the approval check second
JiraBranchOfPmFirst(reqs, pending_request, comment_text) ==
    IF /\ DetectPmIntent(comment_text).is_pm_request
       /\ DetectPmIntent(comment_text).confidence > 5
    THEN "pm_request"
    ELSE IF /\ pending_request # 0
            /\ reqs[pending_request].status = "pending"
            /\ ParseApprovalResponse(comment_text).response_type # "none"
    THEN "approval"
    ELSE "generic"

\* the worker's choice of branch for an event: FIRST the approval response to
\* the pending request of the issue, SECOND a new PM request, else the
\* generic comment handling.  pending_request is 0 when the issue has none.
JiraBranchOf(reqs, pending_request, comment_text) ==
    IF /\ pending_request # 0
       /\ reqs[pending_request].status = "pending"
       /\ ParseApprovalResponse(comment_text).response_type # "none"
    THEN "approval"
    ELSE IF /\ DetectPmIntent(comment_text).is_pm_request
            /\ DetectPmIntent(comment_text).confidence > 5
    THEN "pm_request"
    ELSE "generic"

JiraDispatchEvent ==
    /\ jiraEvents # <<>>
    /\ LET event == Head(jiraEvents)
           id == event.comment_id
           found == GetRequestBySource(requests, "jira", event.issue_key)
           approval == ParseApprovalResponse(event.comment_text)
           pm_intent == DetectPmIntent(event.comment_text)
       IN \E pending \in (IF found = {} THEN {0} ELSE found) :
          /\ jiraBranch' = [op |-> JiraBranchOf(requests, pending, event.comment_text),
                            comment_id |-> id, pending_request |-> pending]
          /\ IF JiraBranchOf(requests, pending, event.comment_text) = "approval"
             THEN /\ CASE approval.response_type = "approved" ->
                            \E out \in ApprovalOutcomes : HandlePmApproval(pending, out)
                       [] approval.response_type = "changes" ->
                            \E d \in JiraDrafts, out \in RevisionOutcomes :
                               HandlePmRevision(pending, approval.feedback, d, out)
                       [] approval.response_type = "cancel" ->
                            HandlePmCancellation(pending)
                  /\ jiraDelivered' = IF lastCall'.success THEN jiraDelivered \cup {id}
                                      ELSE jiraDelivered
                  /\ jiraFailed' = IF lastCall'.success THEN jiraFailed \ {id}
                                   ELSE jiraFailed \cup {id}
             ELSE IF JiraBranchOf(requests, pending, event.comment_text) = "pm_request"
             THEN \E d \in JiraDrafts, posted \in BOOLEAN :
                    /\ ProcessPmRequest("jira", event.issue_key, pm_intent.request_type, d)
                    /\ jiraDelivered' = IF posted THEN jiraDelivered \cup {id}
                                        ELSE jiraDelivered
                    /\ jiraFailed' = IF posted THEN jiraFailed \ {id}
                                     ELSE jiraFailed \cup {id}
             ELSE \E out \in JiraPostOutcomes :
                    /\ UNCHANGED storeVars
                    /\ jiraDelivered' = IF out = "posted" THEN jiraDelivered \cup {id}
                                        ELSE jiraDelivered
                    /\ jiraFailed' = IF out = "posted" THEN jiraFailed \ {id}
                                     ELSE jiraFailed \cup {id}
    /\ processed_mentions' = JiraMarkProcessed(processed_mentions,
                                 Head(jiraEvents).issue_key,
                                 Head(jiraEvents).comment_id).rows
    /\ jiraEvents' = Tail(jiraEvents)
    /\ UNCHANGED <<svcVars, now, slaVars, processed_messages, callerVars,
                   jira_last_check, jiraPoll, slackVars, bbVars>>

\* the dispatch of one event, the comment it may post not shown upstream
JiraDispatch == JiraDispatchEvent /\ UNCHANGED <<jira_comments, jira_authors>>

NextJira == JiraUserComments \/ JiraPollForMentions \/ JiraDispatch \/ Tick

SpecJira == Init /\ [][NextJira]_vars

----------------------------------------------------------------------------
(* Claims about the Jira connector and its worker (SpecJira).              *)

\* C1: mark_processed is called for an item only after the side effect of the
\* dispatcher branch chosen for it has been confirmed delivered; no connector
\* records an item as processed inside poll().  Stated for Jira: every
\* comment in the processed ledger has had its side effect delivered.
C1_MarkedOnlyAfterDelivery ==
    \A id \in DOMAIN jira_comments :
        JiraIsProcessed(processed_mentions, JiraIssue, id) => id \in jiraDelivered

\* C2: if the side effect for an event fails, the item is not in the
\* processed ledger afterwards (so that a later poll emits it again).
\* Stated for Jira: no comment whose side effect failed is in the ledger.
C2_FailedLeftUnmarked ==
    \A id \in jiraFailed : ~JiraIsProcessed(processed_mentions, JiraIssue, id)

\* the requests stored for a (source, source_id)
RequestsOfSource(reqs, source, source_id) ==
    {rid \in DOMAIN reqs : reqs[rid].source = source /\ reqs[rid].source_id = source_id}

\* C15: end-to-end draft creation.  Dispatching an event whose source_id has
\* no PMRequest and whose text holds the phrase "create a bug" leaves exactly
\* one PMRequest for that (source, source_id): pending, of type bug, with
\* exactly one revision, numbered 1, whose content is the request's
\* draft_content.  Stated for the Jira worker.
C15_DraftCreated ==
    [][(/\ jiraEvents # <<>>
        /\ jiraEvents' = Tail(jiraEvents)
        /\ Contains(Head(jiraEvents).comment_text, {"create a bug"})
        /\ RequestsOfSource(requests, "jira", Head(jiraEvents).issue_key) = {})
       => LET made == RequestsOfSource(requests', "jira", Head(jiraEvents).issue_key)
          IN  /\ Cardinality(made) = 1
              /\ \A rid \in made :
                    /\ requests'[rid].status = "pending"
                    /\ requests'[rid].request_type = "bug"
                    /\ BagCardinality([r \in RevisionRows(revisions', rid)
                                          |-> revisions'[r]]) = 1
                    /\ \A r \in RevisionRows(revisions', rid) :
                          /\ r.revision_number = 1
                          /\ r.draft_content = requests'[rid].draft_content]_vars

\* C15 witness: the Jira worker has dispatched a "create a bug" comment on an
\* issue without a request, and the issue now has its one pending bug request
\* with its one revision.
C15_Witness ==
    /\ lastCall.op = "create"
    /\ jiraEvents = <<>>
    /\ Len(requests) = 1
    /\ requests[1].source = "jira" /\ requests[1].source_id = JiraIssue
    /\ requests[1].status = "pending" /\ requests[1].request_type = "bug"
    /\ RevisionNumbers(revisions, 1) = {1}
    /\ \E id \in DOMAIN jira_comments :
          /\ Contains(jira_comments[id], {"create a bug"})
          /\ JiraIsProcessed(processed_mentions, JiraIssue, id)

\* C16: dispatcher priority.  An event whose issue's most recent PMRequest
\* is pending and whose text the approval parser classifies is consumed by
\* the approval branch only: no PMRequest is created for it and the generic
\* handling is not entered, also when its text matches a draft-request
\* trigger.  Stated for the Jira worker.
C16_ApprovalBranchFirst ==
    [][(/\ jiraEvents # <<>>
        /\ jiraEvents' = Tail(jiraEvents)
        /\ Head(jiraEvents).issue_key # ""
        /\ GetRequestBySource(requests, "jira", Head(jiraEvents).issue_key) # {}
        /\ \A rid \in GetRequestBySource(requests, "jira", Head(jiraEvents).issue_key) :
               requests[rid].status = "pending"
        /\ ParseApprovalResponse(Head(jiraEvents).comment_text).response_type
               \in {"approved", "changes", "cancel"})
       => /\ jiraBranch'.op = "approval"
          /\ jiraBranch'.comment_id = Head(jiraEvents).comment_id
          /\ Len(requests') = Len(requests)
          /\ lastCall'.op \in {"approve", "revise", "cancel"}]_vars

\* C16 witness: a comment holding both "go ahead" and "create a bug" was
\* dispatched on an issue with a pending request and went to the approval
\* branch; the issue still has one request only.
C16_Witness ==
    /\ jiraBranch.op = "approval"
    /\ Contains(jira_comments[jiraBranch.comment_id], {"create a bug"})
    /\ Contains(jira_comments[jiraBranch.comment_id], {"go ahead"})
    /\ lastCall.op = "approve"
    /\ Len(requests) = 1

----------------------------------------------------------------------------
(* Slack connector (src/monitors/slack_monitor.py) and the Slack worker    *)
(* loop of the service (src/pm_agent_service.py).  A message's ts is its   *)
(* index in the channel; thread_ts = 0 is a top-level message.  Only the   *)
(* users' messages are kept: both loops skip the bot's own posts.  All     *)
(* messages are younger than the 24 hour look-back.                        *)

SlackMention == "<@UBOT>"
SlackTexts ==
    {<<SlackMention, "status?">>, <<SlackMention, "create a bug", "login">>,
     <<SlackMention, "approved">>, <<SlackMention, "changes:", "shorter">>,
     <<"status?">>}
SlackResponse == "reply"
SlackDrafts == {"draft_a"}

RECURSIVE Ascending(_)
Ascending(S) == IF S = {} THEN <<>> ELSE <<Min(S)>> \o Ascending(S \ {Min(S)})

RECURSIVE Descending(_)
Descending(S) == IF S = {} THEN <<>> ELSE <<Max(S)>> \o Descending(S \ {Max(S)})

\* SlackMonitor.get_last_processed_ts: MAX(ts) of processed_messages, or 0
SlackGetLastProcessedTs(table) ==
    IF BagToSet(table) = {} THEN 0 ELSE Max({r.ts : r \in BagToSet(table)})

SlackIsMention(text) == Contains(text, {SlackMention})

SlackReplies(msgs, thread_ts) == {i \in DOMAIN msgs : msgs[i].thread_ts = thread_ts}

\* the thread_ts Slack reports for a message: a reply's parent, a parent's own ts
SlackThreadTsOf(msgs, i) ==
    IF msgs[i].thread_ts # 0 THEN msgs[i].thread_ts
    ELSE IF SlackReplies(msgs, i) # {} THEN i ELSE 0

\* SlackMonitor.get_thread_context and the worker's context_parts: the text
\* of the parent and of every reply, then the message itself if it is no reply
RECURSIVE SlackJoinTexts(_, _)
SlackJoinTexts(msgs, ids) ==
    IF ids = <<>> THEN NoText
    ELSE msgs[Head(ids)].text \o SlackJoinTexts(msgs, Tail(ids))

SlackMessageText(text) ==
    LET NotMention(token) == token # SlackMention IN SelectSeq(text, NotMention)

SlackFullContext(msgs, i) ==
    LET thread_ts == SlackThreadTsOf(msgs, i)
    IN IF thread_ts = 0 THEN SlackMessageText(msgs[i].text)
       ELSE msgs[thread_ts].text
              \o SlackJoinTexts(msgs, Ascending(SlackReplies(msgs, thread_ts)))
              \o (IF i = thread_ts THEN SlackMessageText(msgs[i].text) ELSE NoText)

SlackEvent(msgs, i) ==
    [ts |-> i, thread_ts |-> SlackThreadTsOf(msgs, i), text |-> msgs[i].text,
     full_context |-> SlackFullContext(msgs, i)]

\* the users' mentions that are not in the processed ledger
SlackUnhandled(msgs, table) ==
    {i \in DOMAIN msgs : SlackIsMention(msgs[i].text) /\ ~SlackIsProcessed(table, i)}

\* SlackMonitor.poll_for_mentions, channel part: conversations.history gives
\* the top-level messages after `oldest`, newest first, and with them the
\* thread replies their author also sent to the channel
SlackHistory(msgs, last_ts) ==
    {i \in DOMAIN msgs : (msgs[i].thread_ts = 0 \/ msgs[i].broadcast) /\ i > last_ts}

SlackChannelEvents(msgs, table) ==
    LET last_ts == SlackGetLastProcessedTs(table)
    IN Descending(SlackHistory(msgs, last_ts) \cap SlackUnhandled(msgs, table))

\* the threads poll_for_mentions polls: those of the fetched messages and all
\* tracked ones
SlackThreadsToPoll(msgs, table, tracked) ==
    ({SlackThreadTsOf(msgs, i) : i \in SlackHistory(msgs, SlackGetLastProcessedTs(table))}
        \ {0}) \cup DOMAIN tracked

\* SlackMonitor.poll_thread_replies: the replies after the thread's
\* last_checked_ts that mention the bot and are not processed, oldest first
SlackThreadEvents(msgs, table, tracked, thread_ts) ==
    LET last_checked == IF thread_ts \in DOMAIN tracked THEN tracked[thread_ts] ELSE 0
    IN Ascending({i \in SlackReplies(msgs, thread_ts) \cap SlackUnhandled(msgs, table) :
                     i > last_checked})

RECURSIVE SlackPollThreads(_, _, _, _)
SlackPollThreads(msgs, table, tracked, threads) ==
    IF threads = <<>> THEN <<>>
    ELSE SlackThreadEvents(msgs, table, tracked, Head(threads))
            \o SlackPollThreads(msgs, table, tracked, Tail(threads))

\* poll_thread_replies writes the ts of each reply it emits as the thread's
\* last_checked_ts
SlackAdvanceThreads(msgs, table, tracked, threads) ==
    LET emitting == {t \in threads : SlackThreadEvents(msgs, table, tracked, t) # <<>>}
    IN [t \in DOMAIN tracked \cup emitting |->
          IF t \in emitting
          THEN LET evs == SlackThreadEvents(msgs, table, tracked, t) IN evs[Len(evs)]
          ELSE tracked[t]]

\* a user posts a message to the channel or replies in a thread
SlackUserPosts ==
    /\ Len(slack_messages) < SlackMaxMessages
    /\ \E text \in SlackTexts,
          thread_ts \in {0} \cup {i \in DOMAIN slack_messages : slack_messages[i].thread_ts = 0} :
            slack_messages' = Append(slack_messages, [thread_ts |-> thread_ts, text |-> text,
                                                      broadcast |-> FALSE])
    /\ slackQuiet' = FALSE
    /\ UNCHANGED <<svcVars, now, storeVars, slaVars, ledgerVars, callerVars, jiraVars, bbVars,
                   tracked_threads, slackEvents, slackEffects, slackPolls, slackPoll>>

\* SlackMonitor.poll_for_mentions, called by the worker once the previous
\* batch is dispatched.  `ok` is the answer of conversations.history,
\* `failed` the threads whose conversations.replies request failed.
SlackPollForMentions ==
    /\ slackEvents = <<>>
    /\ slackPolls < SlackMaxPolls
    /\ slackPolls' = slackPolls + 1
    /\ \E ok \in BOOLEAN :
         IF ~ok
         THEN /\ slackPoll' = [op |-> "poll", ok |-> FALSE, events |-> <<>>,
                               unhandled |-> SlackUnhandled(slack_messages, processed_messages),
                               quiet |-> slackQuiet,
                               last_ts |-> SlackGetLastProcessedTs(processed_messages),
                               tracked |-> tracked_threads]
              /\ UNCHANGED <<tracked_threads, slackEvents, slackQuiet>>
         ELSE \E failed \in SUBSET SlackThreadsToPoll(slack_messages, processed_messages,
                                                      tracked_threads) :
              LET threads == SlackThreadsToPoll(slack_messages, processed_messages,
                                                tracked_threads) \ failed
                  ids == SlackChannelEvents(slack_messages, processed_messages)
                           \o SlackPollThreads(slack_messages, processed_messages,
                                               tracked_threads, Ascending(threads))
                  events == [n \in DOMAIN ids |-> SlackEvent(slack_messages, ids[n])]
              IN /\ tracked_threads' = SlackAdvanceThreads(slack_messages, processed_messages,
                                                           tracked_threads, threads)
                 /\ slackEvents' = events
                 /\ slackQuiet' = (failed = {})
                 /\ slackPoll' = [op |-> "poll", ok |-> (failed = {}), events |-> ids,
                                  unhandled |-> SlackUnhandled(slack_messages, processed_messages),
                                  quiet |-> slackQuiet,
                                  last_ts |-> SlackGetLastProcessedTs(processed_messages),
                                  tracked |-> tracked_threads]
    /\ UNCHANGED <<svcVars, now, storeVars, slaVars, ledgerVars, callerVars, jiraVars, bbVars,
                   slack_messages, slackEffects>>

\* One iteration of the worker's `for event in events` loop.  `sent` is the
\* result of send_response.
SlackCountEffect(effects, ts, done) ==
    IF ~done THEN effects
    ELSE SetRow(effects, ts, IF ts \in DOMAIN effects THEN effects[ts] + 1 ELSE 1)

SlackDispatch ==
    /\ slackEvents # <<>>
    /\ slackEvents' = Tail(slackEvents)
    /\ LET event == Head(slackEvents)
           message_text == SlackMessageText(event.text)
           source_id == IF event.thread_ts # 0 THEN event.thread_ts ELSE event.ts
           found == GetRequestBySource(requests, "slack", source_id)
           approval == ParseApprovalResponse(message_text)
           pm_intent == DetectPmIntent(event.full_context)
       IN \E pending \in (IF found = {} THEN {0} ELSE found), sent \in BOOLEAN :
          IF /\ pending # 0
             /\ requests[pending].status = "pending"
             /\ approval.response_type # "none"
          THEN \* the handler's outcome is sent to the thread; no mark_processed
               /\ CASE approval.response_type = "approved" ->
                         \E out \in ApprovalOutcomes : HandlePmApproval(pending, out)
                    [] approval.response_type = "changes" ->
                         \E d \in SlackDrafts, out \in RevisionOutcomes :
                            HandlePmRevision(pending, approval.feedback, d, out)
                    [] approval.response_type = "cancel" ->
                         HandlePmCancellation(pending)
               /\ slackEffects' = SlackCountEffect(slackEffects, event.ts, lastCall'.success)
               /\ slackQuiet' = (slackQuiet /\ lastCall'.success /\ sent)
               /\ UNCHANGED <<processed_messages, tracked_threads>>
          ELSE IF pm_intent.is_pm_request /\ pm_intent.confidence > 5
          THEN \* the result dict has no 'draft' key: nothing is sent, the
               \* thread is not registered, the message is not marked
               /\ \E d \in SlackDrafts :
                     ProcessPmRequest("slack", source_id, pm_intent.request_type, d)
               /\ slackEffects' = SlackCountEffect(slackEffects, event.ts, TRUE)
               /\ UNCHANGED <<processed_messages, tracked_threads, slackQuiet>>
          ELSE \* generic: mark and register the thread only if the send succeeded
               /\ UNCHANGED storeVars
               /\ processed_messages' =
                     IF sent THEN SlackMarkProcessed(processed_messages, event.ts,
                                                     SlackResponse).rows
                     ELSE processed_messages
               /\ tracked_threads' = IF sent THEN SetRow(tracked_threads, source_id, 0)
                                     ELSE tracked_threads
               /\ slackEffects' = SlackCountEffect(slackEffects, event.ts, sent)
               /\ slackQuiet' = (slackQuiet /\ sent)
    /\ UNCHANGED <<svcVars, now, slaVars, processed_mentions, callerVars, jiraVars, bbVars,
                   slack_messages, slackPolls, slackPoll>>

NextSlack == SlackUserPosts \/ SlackPollForMentions \/ SlackDispatch \/ Tick

SpecSlack == Init /\ [][NextSlack]_vars

----------------------------------------------------------------------------
(* Claims about the Slack connector and its worker (SpecSlack).            *)

\* C3: the dispatcher's side effects for one item key are performed at most
\* once: once the branch chosen for a message has succeeded, no later poll
\* cycle emits and dispatches the same message again.
C3_EffectsAtMostOnce ==
    \A ts \in DOMAIN slackEffects : slackEffects[ts] <= 1

\* C4: the chat connector never permanently skips an unhandled message:
\* every mention that is not marked processed when a poll starts is emitted
\* by that poll if the poll succeeds.
C4_UnhandledEmitted ==
    (slackPoll.op = "poll" /\ slackPoll.ok) =>
        \A ts \in slackPoll.unhandled :
            \E n \in DOMAIN slackPoll.events : slackPoll.events[n] = ts

\* C6: idempotent polling: a successful poll made when nothing was posted and
\* no dispatch failed since the previous successful poll returns no event.
C6_SecondPollEmpty ==
    (slackPoll.op = "poll" /\ slackPoll.ok /\ slackPoll.quiet) =>
        slackPoll.events = <<>>

----------------------------------------------------------------------------
(* Bitbucket connector (src/monitors/bitbucket_monitor.py).  Each          *)
(* repository has one open pull request (id 1) whose comments carry their  *)
(* creation index as id.  The worker only logs the events.                 *)

BbRepos == <<"citemed_web", "word_addon">>
BbPrId == 1
BbTexts == {<<"@remington", "review">>, <<"review">>}

\* BitbucketMonitor._is_mentioned
BbIsMentioned(text) == Contains(text, {"@remington", "remington"})

\* BitbucketMonitor.is_processed
BbIsProcessed(table, repo, pr_id, comment_id) ==
    \E r \in BagToSet(table) :
        r.repo = repo /\ r.pr_id = pr_id /\ r.comment_id = comment_id

\* BitbucketMonitor.mark_processed: INSERT OR IGNORE, PRIMARY KEY (repo, pr_id, comment_id)
BbMarkProcessed(table, repo, pr_id, comment_id) ==
    SqlInsert(table, [repo |-> repo, pr_id |-> pr_id, comment_id |-> comment_id],
              {r \in BagToSet(table) :
                  r.repo = repo /\ r.pr_id = pr_id /\ r.comment_id = comment_id},
              "IGNORE")

\* BitbucketMonitor._check_pr_activity: the new mentions, each marked as
\* processed when its event is appended
BbActivityEvents(comments, table, repo) ==
    LET all == [i \in DOMAIN comments |->
                  [repo |-> repo, pr_id |-> BbPrId, comment_id |-> i,
                   comment_text |-> comments[i]]]
        IsNew(e) == /\ BbIsMentioned(e.comment_text)
                    /\ ~BbIsProcessed(table, e.repo, e.pr_id, e.comment_id)
    IN SelectSeq(all, IsNew)

RECURSIVE BbMarkAll(_, _)
BbMarkAll(table, events) ==
    IF events = <<>> THEN table
    ELSE BbMarkAll(BbMarkProcessed(table, Head(events).repo, Head(events).pr_id,
                                   Head(events).comment_id).rows,
                   Tail(events))

\* What the two requests of _check_repo came back with: list_pull_requests
\* answered and get_activity answered ("ok"), get_activity raised
\* RateLimitError ("activity_rate_limited") or anything else
\* ("activity_failed"), list_pull_requests raised not-found, RateLimitError,
\* or another error ("api_error").
BbOutcomes == {"ok", "activity_failed", "activity_rate_limited", "not_found",
               "rate_limited", "api_error"}
BbTransient == {"activity_failed", "activity_rate_limited", "rate_limited", "api_error"}
BbRateLimits == {"activity_rate_limited", "rate_limited"}

\* whether the outcome of a repository ends poll_pull_requests' loop over the
\* repositories: only a RateLimitError that _check_repo lets through does,
\* and the except clause of _check_pr_activity lets none through
BbAbortsCycle(out) == out = "rate_limited"

\* BitbucketMonitor.poll_pull_requests from the n-th repository on: the
\* events, the ledger, the cursors and the repositories it got to
RECURSIVE BbPollFrom(_, _, _, _, _)
BbPollFrom(n, outcomes, table, cursors, t) ==
    IF n > Len(BbRepos)
    THEN [events |-> <<>>, table |-> table, cursors |-> cursors, visited |-> {}]
    ELSE LET repo == BbRepos[n]
             out == outcomes[repo]
             events == IF out = "ok" THEN BbActivityEvents(bb_comments[repo], table, repo)
                       ELSE <<>>
             \* _check_repo: set_last_check_time once the loop over the pull
             \* requests has ended, whatever _check_pr_activity swallowed
             moved == IF out \in {"ok", "activity_failed", "activity_rate_limited"}
                      THEN SetRow(cursors, repo, t) ELSE cursors
             rest == IF BbAbortsCycle(out)
                     THEN [events |-> <<>>, table |-> table, cursors |-> cursors,
                           visited |-> {}]
                     ELSE BbPollFrom(n + 1, outcomes, BbMarkAll(table, events), moved, t)
         IN [events |-> events \o rest.events, table |-> rest.table,
             cursors |-> rest.cursors, visited |-> {repo} \cup rest.visited]

\* someone comments on a pull request
BbUserComments ==
    /\ \E repo \in DOMAIN bb_comments, text \in BbTexts :
          /\ Len(bb_comments[repo]) < BbMaxComments
          /\ bb_comments' = [bb_comments EXCEPT ![repo] = Append(@, text)]
    /\ UNCHANGED <<svcVars, now, storeVars, slaVars, ledgerVars, callerVars, jiraVars, slackVars,
                   processed_pr_comments, bb_last_check, bbPoll>>

\* BitbucketMonitor.poll_pull_requests
BbPollPullRequests ==
    /\ \E outcomes \in [DOMAIN bb_comments -> BbOutcomes] :
          LET res == BbPollFrom(1, outcomes, processed_pr_comments, bb_last_check, now)
          IN /\ processed_pr_comments' = res.table
             /\ bb_last_check' = res.cursors
             /\ bbPoll' = [op |-> "poll", events |-> res.events,
                           failed |-> {repo \in res.visited : outcomes[repo] \in BbTransient},
                           cursor_before |-> bb_last_check,
                           outcomes |-> outcomes, visited |-> res.visited]
    /\ UNCHANGED <<svcVars, now, storeVars, slaVars, ledgerVars, callerVars, jiraVars, slackVars,
                   bb_comments>>

NextBitbucket == BbUserComments \/ BbPollPullRequests \/ Tick

SpecBitbucket == Init /\ [][NextBitbucket]_vars

----------------------------------------------------------------------------
(* Claims about the connectors' failure handling (SpecBitbucket).          *)

\* the stored timestamp of a repository, 0 if it has no row
BbCursor(cursors, repo) == IF repo \in DOMAIN cursors THEN cursors[repo] ELSE 0

\* C5: when a connector's fetch fails transiently (timeout, non-success
\* status, rate limit), poll() returns an empty list and the connector's
\* stored cursor has the same value as before the call.  Stated per
\* repository of the code-review connector: a repository whose fetch failed
\* contributes no event and keeps its last_check row.
C5_FailedFetchKeepsCursor ==
    bbPoll.op = "poll" =>
        \A repo \in bbPoll.failed :
            /\ \A n \in DOMAIN bbPoll.events : bbPoll.events[n].repo # repo
            /\ BbCursor(bb_last_check, repo) = BbCursor(bbPoll.cursor_before, repo)

\* C33: an event on an issue whose most recent PMRequest is pending and whose
\* text the approval parser classifies as none leaves that request's row
\* (status pending, draft_content) and its revisions unchanged, and the
\* request get_request_by_source finds for the issue, the one a later
\* response resolves, is still that request.  Stated for the Jira worker.
C33_UnparsedLeavesPending ==
    [][(/\ jiraEvents # <<>>
        /\ jiraEvents' = Tail(jiraEvents)
        /\ GetRequestBySource(requests, "jira", Head(jiraEvents).issue_key) # {}
        /\ \A rid \in GetRequestBySource(requests, "jira", Head(jiraEvents).issue_key) :
               requests[rid].status = "pending"
        /\ ParseApprovalResponse(Head(jiraEvents).comment_text).response_type = "none")
       => /\ \A rid \in GetRequestBySource(requests, "jira", Head(jiraEvents).issue_key) :
                /\ requests'[rid] = requests[rid]
                /\ RevisionRows(revisions', rid) = RevisionRows(revisions, rid)
          /\ GetRequestBySource(requests', "jira", Head(jiraEvents).issue_key)
                = GetRequestBySource(requests, "jira", Head(jiraEvents).issue_key)]_vars

C34_FeedbackVerbatim ==
    (/\ lastCall.op = "parse"
     /\ Len(lastCall.text) >= 2
     /\ lastCall.text[1] \in {"changes:", "revise:", "update:", "modify:", "please change"})
    => /\ lastCall.result.response_type = "changes"
       /\ lastCall.result.feedback = SubSeq(lastCall.text, 2, Len(lastCall.text))

\* the position of a repository in the order poll_pull_requests takes them
BbRepoIndex(repo) == CHOOSE n \in DOMAIN BbRepos : BbRepos[n] = repo

\* C31: once a rate-limit error occurs while a repository is handled, while
\* listing its pull requests or while reading a pull request's activity, no
\* later repository is queried in that cycle.
C31_RateLimitAbortsCycle ==
    bbPoll.op = "poll" =>
        \A repo \in bbPoll.visited :
            bbPoll.outcomes[repo] \in BbRateLimits =>
                \A later \in bbPoll.visited : BbRepoIndex(later) <= BbRepoIndex(repo)

----------------------------------------------------------------------------
(* The service process (src/pm_agent_service.py): construction, the start  *)
(* of the polling workers, the worker loop and the shutdown handler.  The  *)
(* three connector workers share one loop shape: poll, then for each event *)
(* of the batch a reasoning call with its side effect, then mark_processed.*)

SvcMaxPolls == 1
SvcMaxBatch == 2

Connectors == {"slack", "jira", "bitbucket"}
OrchestratorOutcomes == {"claude", "simple", "none"}
InFlight == {"polling", "reasoning", "posted"}
restVars == <<now, storeVars, slaVars, ledgerVars, callerVars, connVars>>

\* a variant that builds every monitor whatever the environment holds
ServiceMonitorsAll(env) == Connectors

\* SlackMonitor(), JiraMonitor(), BitbucketMonitor(): a constructor raises
\* ValueError when a credential is missing, and __init__ then sets the
\* monitor to None ("polling will be disabled")
ServiceMonitors(env) == env

\* PMAgentService.__init__: the environment is read; only the failure to
\* build any orchestrator ends the process (sys.exit(1))
ServiceInit ==
    /\ svcPhase = "new"
    /\ \E env \in SUBSET Connectors, orch \in OrchestratorOutcomes :
          /\ svcEnv' = env
          /\ IF orch = "none"
             THEN /\ svcPhase' = "exit_1"
                  /\ svcMonitors' = {}
             ELSE /\ svcPhase' = "constructed"
                  /\ svcMonitors' = ServiceMonitors(env)
    /\ running' = FALSE
    /\ svcThreads' = {}
    /\ UNCHANGED <<worker, svcPolls, restVars>>

\* a worker thread that has just been started: at the top of its loop
NewWorker == [pc |-> "top", batch |-> <<>>, size |-> 0, handled |-> {}, raised |-> {},
              at |-> "none"]

\* start_slack_polling, start_jira_polling, start_bitbucket_polling: each
\* returns at once when its monitor is None, else starts a daemon thread
StartPolling(monitors) == [c \in monitors |-> NewWorker]

\* PMAgentService.start: running := True, the workers are started, then
\* the webhook server blocks the main thread
ServiceStart ==
    /\ svcPhase = "constructed"
    /\ running' = TRUE
    /\ worker' = StartPolling(svcMonitors)
    /\ svcThreads' = DOMAIN worker'
    /\ svcPhase' = "started"
    /\ UNCHANGED <<svcEnv, svcMonitors, svcPolls, restVars>>

ProcessAlive == svcPhase \in {"started", "stopping"}

SetWorker(c, w) == [worker EXCEPT ![c] = w]

\* `while self.running:` at the top of poll_loop
WorkerLoopTop(c) ==
    /\ ProcessAlive
    /\ c \in DOMAIN worker
    /\ worker[c].pc = "top"
    /\ running => svcPolls < SvcMaxPolls
    /\ IF running
       THEN /\ worker' = SetWorker(c, [worker[c] EXCEPT !.pc = "polling"])
            /\ svcPolls' = svcPolls + 1
       ELSE /\ worker' = SetWorker(c, [worker[c] EXCEPT !.pc = "stopped"])
            /\ UNCHANGED svcPolls
    /\ UNCHANGED <<svcPhase, svcEnv, svcMonitors, running, svcThreads, restVars>>

\* a variant in which a raising event ends the batch (one try block
\* around the whole for loop)
AfterEventRaiseEndsBatch(w, raisedNow) ==
    [w EXCEPT !.batch = IF raisedNow THEN <<>> ELSE Tail(w.batch),
              !.handled = w.handled \cup {Head(w.batch)},
              !.raised = IF raisedNow THEN w.raised \cup {Head(w.batch)} ELSE w.raised,
              !.pc = IF raisedNow \/ Tail(w.batch) = <<>> THEN "sleep" ELSE "reasoning"]

\* the end of one iteration of `for event in events:`; the try/except
\* inside the loop body catches what the iteration raised, and the loop
\* goes on with the next event, or to time.sleep after the last one
AfterEvent(w, raisedNow) ==
    [w EXCEPT !.batch = Tail(w.batch),
              !.handled = w.handled \cup {Head(w.batch)},
              !.raised = IF raisedNow THEN w.raised \cup {Head(w.batch)} ELSE w.raised,
              !.pc = IF Tail(w.batch) = <<>> THEN "sleep" ELSE "reasoning"]

\* poll_for_mentions returns a batch of n events, or raises (caught by the
\* outer except of the loop, which goes to time.sleep)
WorkerPoll(c) ==
    /\ ProcessAlive
    /\ c \in DOMAIN worker
    /\ worker[c].pc = "polling"
    /\ \E n \in 0..SvcMaxBatch, raise \in BOOLEAN :
          worker' = SetWorker(c,
              IF raise \/ n = 0
              THEN [worker[c] EXCEPT !.pc = "sleep", !.batch = <<>>, !.size = 0,
                                     !.handled = {}, !.raised = {}]
              ELSE [worker[c] EXCEPT !.pc = "reasoning", !.batch = [i \in 1..n |-> i],
                                     !.size = n, !.handled = {}, !.raised = {}])
    /\ UNCHANGED <<svcPhase, svcEnv, svcMonitors, running, svcThreads, svcPolls, restVars>>

\* the reasoning call and the posting of its response for the event at the
\* head of the batch: the side effect is made, or the call raises
WorkerReason(c) ==
    /\ ProcessAlive
    /\ c \in DOMAIN worker
    /\ worker[c].pc = "reasoning"
    /\ \E raise \in BOOLEAN :
          worker' = SetWorker(c,
              IF raise
              THEN AfterEvent(worker[c], TRUE)
              ELSE [worker[c] EXCEPT !.pc = "posted"])
    /\ UNCHANGED <<svcPhase, svcEnv, svcMonitors, running, svcThreads, svcPolls, restVars>>

\* mark_processed after the side effect: the ledger write is made or raises
WorkerMark(c) ==
    /\ ProcessAlive
    /\ c \in DOMAIN worker
    /\ worker[c].pc = "posted"
    /\ \E raise \in BOOLEAN :
          worker' = SetWorker(c,
              IF raise
              THEN AfterEvent(worker[c], TRUE)
              ELSE AfterEvent(worker[c], FALSE))
    /\ UNCHANGED <<svcPhase, svcEnv, svcMonitors, running, svcThreads, svcPolls, restVars>>

\* time.sleep(poll_interval) returns
WorkerWake(c) ==
    /\ ProcessAlive
    /\ c \in DOMAIN worker
    /\ worker[c].pc = "sleep"
    /\ worker' = SetWorker(c, [worker[c] EXCEPT !.pc = "top"])
    /\ UNCHANGED <<svcPhase, svcEnv, svcMonitors, running, svcThreads, svcPolls, restVars>>

\* _handle_shutdown up to its first join: SIGINT or SIGTERM arrives
ShutdownSignal ==
    /\ svcPhase = "started"
    /\ running' = FALSE
    /\ svcPhase' = "stopping"
    /\ UNCHANGED <<svcEnv, svcMonitors, svcThreads, worker, svcPolls, restVars>>

\* the daemon threads when the process exits: a thread whose loop has not
\* ended is stopped where it stands
KillWorkers(ws) ==
    [c \in DOMAIN ws |->
        IF ws[c].pc = "stopped" THEN ws[c]
        ELSE [ws[c] EXCEPT !.pc = "killed", !.at = ws[c].pc]]

\* the rest of _handle_shutdown: every thread.join(timeout=2) has returned,
\* because the thread ended or because two seconds passed; then sys.exit(0)
ShutdownExit ==
    /\ svcPhase = "stopping"
    /\ svcPhase' = "exit_0"
    /\ worker' = KillWorkers(worker)
    /\ UNCHANGED <<svcEnv, svcMonitors, running, svcThreads, svcPolls, restVars>>

WorkerStep(c) ==
    WorkerLoopTop(c) \/ WorkerPoll(c) \/ WorkerReason(c) \/ WorkerMark(c) \/ WorkerWake(c)

NextService ==
    \/ ServiceInit
    \/ ServiceStart
    \/ \E c \in Connectors : WorkerStep(c)
    \/ ShutdownSignal
    \/ ShutdownExit

SpecService == Init /\ [][NextService]_vars

\* the service while no shutdown signal arrives: a thread that can take a
\* step is scheduled and takes it
NextServiceUp ==
    \/ ServiceInit
    \/ ServiceStart
    \/ \E c \in Connectors : WorkerStep(c)

SpecServiceUp ==
    Init /\ [][NextServiceUp]_vars /\ \A c \in Connectors : WF_vars(WorkerStep(c))

C26_FailureContained ==
    /\ [](\A c \in DOMAIN worker :
             worker[c].pc = "sleep" => worker[c].handled = 1..worker[c].size)
    /\ [](\A c \in DOMAIN worker : worker[c].pc # "stopped")
    /\ \A c \in Connectors :
          (c \in DOMAIN worker /\ worker[c].raised # {} /\ worker[c].batch # <<>>)
             ~> (c \in DOMAIN worker /\ worker[c].pc = "top")

C26_Witness ==
    \E c \in DOMAIN worker :
        /\ worker[c].pc = "top"
        /\ worker[c].raised = {1}
        /\ worker[c].handled = {1, 2}

\* C27: shutdown does not interrupt in-flight work: when the process ends,
\* no worker is stopped inside poll(), inside a reasoning call or between a
\* side effect and its mark_processed.
C27_InFlightCompletes ==
    \A c \in DOMAIN worker :
        worker[c].pc = "killed" => worker[c].at \notin InFlight


----------------------------------------------------------------------------
(* The query window of SlackMonitor.poll_for_mentions: the `oldest`        *)
(* parameter of conversations.history and the filter on the messages it    *)
(* returns.  Times are Unix seconds; the inputs are drawn around the        *)
(* boundaries the code compares with.                                       *)

WindowSpread == 1
WindowMaxMessages == 2
DaySeconds == 24 * 3600
HourSeconds == 1 * 3600

WindowNows == {3 * DaySeconds, 3 * DaySeconds + 1}
WindowTimes(t) ==
    {t - DaySeconds + k : k \in (0 - WindowSpread)..WindowSpread}
       \cup {t - HourSeconds + k : k \in (0 - WindowSpread)..WindowSpread}
       \cup {t - k : k \in 0..WindowSpread}

\* a variant without the stale branch: the stored cursor is used as it is
SlackOldestStoredOnly(last_ts, t) ==
    IF last_ts = 0 THEN t - DaySeconds ELSE last_ts

\* params["oldest"]: 24 hours back on a first run and on a stale cursor,
\* else the cursor (the two branches for a cursor of the last 24 hours
\* assign the same value)
SlackOldest(last_ts, t) ==
    LET one_hour_ago == t - HourSeconds
        twenty_four_hours_ago == t - DaySeconds
    IN IF last_ts = 0 THEN twenty_four_hours_ago
       ELSE IF last_ts < twenty_four_hours_ago THEN twenty_four_hours_ago
       ELSE IF last_ts < one_hour_ago THEN last_ts
       ELSE last_ts

\* conversations.history: the messages after `oldest`
SlackFetched(tss, oldest) == {ts \in tss : ts > oldest}

\* `if float(message["ts"]) <= last_ts: continue`
SlackNewerThanCursor(tss, last_ts) == {ts \in tss : ~(ts <= last_ts)}

\* one poll at time t with the processed ledger and the channel's messages
\* drawn from the input sets: the window it asks for, whether the request
\* was answered with ok, the messages that pass the cursor filter, and the
\* cursor a next poll would read (poll_for_mentions writes no processed row)
CallSlackWindow ==
    /\ slackPoll = NoCall
    /\ \E t \in WindowNows :
         \E ok \in BOOLEAN,
            processed \in {{}} \cup {{ts} : ts \in WindowTimes(t)},
            tss \in {m \in SUBSET WindowTimes(t) : Cardinality(m) <= WindowMaxMessages} :
            LET table == IF processed = {} THEN EmptyBag
                         ELSE SlackMarkProcessed(EmptyBag, CHOOSE ts \in processed : TRUE,
                                                 "").rows
                last_ts == SlackGetLastProcessedTs(table)
                oldest == SlackOldest(last_ts, t)
            IN slackPoll' = [op |-> "window", t |-> t, last_ts |-> last_ts,
                             oldest |-> oldest, messages |-> tss, ok |-> ok,
                             kept |-> IF ok
                                      THEN SlackNewerThanCursor(SlackFetched(tss, oldest),
                                                                last_ts)
                                      ELSE {},
                             cursor_after |-> SlackGetLastProcessedTs(table)]
    /\ UNCHANGED <<svcVars, now, storeVars, slaVars, ledgerVars, callerVars, jiraVars,
                   bbVars, slack_messages, tracked_threads, slackEvents, slackEffects,
                   slackQuiet, slackPolls>>

NextWindow == CallSlackWindow

SpecWindow == Init /\ [][NextWindow]_vars

C29_CursorIsFetchTime ==
    (slackPoll.op = "window" /\ slackPoll.ok) => slackPoll.cursor_after = slackPoll.t


\* C30: a stream's cursor is written only by its connector's poll and never
\* moves backwards: a step that is not a poll leaves every tracked thread's
\* last_checked_ts as it was, and no step lowers one or drops its row.
C30_ThreadCursorMonotonic ==
    [][/\ \A t \in DOMAIN tracked_threads :
             /\ t \in DOMAIN tracked_threads'
             /\ tracked_threads'[t] >= tracked_threads[t]
       /\ slackPolls' = slackPolls =>
             \A t \in DOMAIN tracked_threads :
                 t \in DOMAIN tracked_threads' => tracked_threads'[t] = tracked_threads[t]]_vars


----------------------------------------------------------------------------
(* The alert tracker called with item ids and types that hold the          *)
(* separator of violation_id (scripts/utilities/sla_alert_tracker.py).     *)

KeyItems == {"PR-114", "PR-114_pr"}
KeyTypes == {"pr_stale", "stale"}
KeyViolations == [item_id : KeyItems, type : KeyTypes, escalation_level : SlaLevels]

\* the row the tracker reads for a violation, if any
AlertRowOf(alerts, v) ==
    IF ViolationId(v) \in DOMAIN alerts THEN alerts[ViolationId(v)] ELSE NoCall

KeyShouldAlert ==
    /\ \E v \in KeyViolations :
          slaCall' = [op |-> "should_alert", violation |-> v,
                      result |-> ShouldAlertViolation(v)]
    /\ UNCHANGED <<svcVars, now, storeVars, sla_alerts, slaTicks, slaPosts, ledgerVars,
                   callerVars, connVars>>

KeyRecordAlert ==
    /\ \E v \in KeyViolations :
          /\ ViolationId(v) \in DOMAIN sla_alerts =>
                sla_alerts[ViolationId(v)].alert_count < MaxAlertCount
          /\ sla_alerts' = RecordAlert(sla_alerts, v, "none", now)
          /\ slaCall' = [op |-> "record_alert", violation |-> v]
    /\ UNCHANGED <<svcVars, now, storeVars, slaTicks, slaPosts, ledgerVars, callerVars,
                   connVars>>

NextSlaKeys == KeyShouldAlert \/ KeyRecordAlert

SpecSlaKeys == Init /\ [][NextSlaKeys]_vars

\* C32: alert state is kept per (item_id, violation_type) pair: record_alert
\* for one pair changes neither the should_alert decision nor the row
\* (alert_count, level, last_alerted_at) of any other pair, and a violation of
\* a pair never recorded is alerted.
C32_PairsIndependent ==
    /\ [][slaCall'.op = "record_alert" /\ sla_alerts' # sla_alerts =>
            \A w \in KeyViolations :
                (w.item_id # slaCall'.violation.item_id \/ w.type # slaCall'.violation.type)
                   => /\ ShouldAlertIn(sla_alerts', now', w) = ShouldAlertIn(sla_alerts, now, w)
                      /\ AlertRowOf(sla_alerts', w) = AlertRowOf(sla_alerts, w)]_vars
    /\ [](slaCall.op = "should_alert" =>
            ((\A x \in DOMAIN sla_alerts :
                  sla_alerts[x].item_id # slaCall.violation.item_id
                     \/ sla_alerts[x].violation_type # slaCall.violation.type)
               => slaCall.result))


----------------------------------------------------------------------------
(* PMRequestsDB.add_revision called by two callers at once: the SELECT of  *)
(* the current maximum and the INSERT of the new row are two statements,   *)
(* and the table's only key is its AUTOINCREMENT id.                       *)

\* the INSERT of add_revision with the number computed from what was read
InsertRevisionRow(revs, rid, new_rev, draft, feedback) ==
    revs (+) SetToBag({[request_id |-> rid, revision_number |-> new_rev,
                        draft_content |-> draft, feedback |-> feedback]})

\* add_revision up to `new_rev = max_rev + 1`
AddRevisionSelect(c) ==
    /\ txn[c] = NoCall
    /\ \E rid \in DOMAIN requests, d \in Drafts, f \in Feedbacks :
          txn' = [txn EXCEPT ![c] = [op |-> "add_revision", rid |-> rid,
                                     new_rev |-> NextRevisionNumber(revisions, rid),
                                     draft |-> d, feedback |-> f]]
    /\ UNCHANGED <<svcVars, now, storeVars, slaVars, ledgerVars, markCalls, markRaised,
                   connVars>>

\* the rest of add_revision: INSERT, UPDATE of the request row, commit
AddRevisionInsert(c) ==
    /\ txn[c].op = "add_revision"
    /\ BagCardinality(revisions) < StoreMaxRevisionRows
    /\ revisions' = InsertRevisionRow(revisions, txn[c].rid, txn[c].new_rev,
                                      txn[c].draft, txn[c].feedback)
    /\ requests' = AddRevisionRequests(requests, txn[c].rid, txn[c].draft)
    /\ lastCall' = [op |-> "add_revision", rid |-> txn[c].rid,
                    revision_number |-> txn[c].new_rev]
    /\ txn' = [txn EXCEPT ![c] = NoCall]
    /\ UNCHANGED <<svcVars, now, slaVars, ledgerVars, markCalls, markRaised, connVars>>

NextRevisionRace ==
    \/ CallCreateRequest
    \/ \E c \in Callers : AddRevisionSelect(c) \/ AddRevisionInsert(c)

SpecRevisionRace == Init /\ [][NextRevisionRace]_vars

\* C35: no two revision rows share (request_id, revision_number), also when
\* two add_revision calls on one request both read the maximum before either
\* inserts.
C35_RevisionKeyUnique ==
    \A rid \in DOMAIN requests :
        \A n \in RevisionNumbers(revisions, rid) :
            BagCardinality([r \in {x \in RevisionRows(revisions, rid) :
                                      x.revision_number = n} |-> revisions[r]]) = 1


----------------------------------------------------------------------------
(* The Jira worker with the comments it posts shown upstream               *)
(* (SpecJiraSelf): the response of the generic branch is added to the      *)
(* issue by JiraMonitor.add_comment under the service's own account, and   *)
(* the next search returns it with the other comments of the issue.        *)

\* what the reasoning service returns as the response to a comment; it may
\* name the assistant
JiraResponseTexts == {<<"done">>, <<"remington", "done">>}

\* One iteration of the worker's loop, and the comment that add_comment
\* posted when the generic branch had a response and the post succeeded.
JiraDispatchAndPost ==
    /\ JiraDispatchEvent
    /\ LET id == Head(jiraEvents).comment_id
           posted == jiraBranch'.op = "generic" /\ id \in jiraDelivered'
       IN IF posted
          THEN /\ Len(jira_comments) < JiraMaxComments
               /\ \E text \in JiraResponseTexts :
                     jira_comments' = Append(jira_comments, text)
               /\ jira_authors' = Append(jira_authors, JiraServiceAccount)
          ELSE UNCHANGED <<jira_comments, jira_authors>>

NextJiraSelf == JiraUserComments \/ JiraPollForMentions \/ JiraDispatchAndPost

SpecJiraSelf == Init /\ [][NextJiraSelf]_vars

\* C36: no connector emits an event for an item authored by the system's own
\* account: what the system posted is never returned by a later poll.
\* Stated for Jira: no event of a poll is for a comment whose author is the
\* service account.
C36_NoSelfEvents ==
    \A i \in DOMAIN jiraEvents :
        jira_authors[jiraEvents[i].comment_id] # JiraServiceAccount


----------------------------------------------------------------------------
(* The Slack connector with thread replies that are also sent to the       *)
(* channel (SpecSlackBroadcast): such a reply carries its thread_ts and is *)
(* returned by conversations.history and by conversations.replies.         *)

\* a user replies in a thread and sends the reply to the channel too
SlackUserBroadcasts ==
    /\ Len(slack_messages) < SlackMaxMessages
    /\ \E text \in SlackTexts,
          thread_ts \in {i \in DOMAIN slack_messages : slack_messages[i].thread_ts = 0} :
            slack_messages' = Append(slack_messages, [thread_ts |-> thread_ts, text |-> text,
                                                      broadcast |-> TRUE])
    /\ slackQuiet' = FALSE
    /\ UNCHANGED <<svcVars, now, storeVars, slaVars, ledgerVars, callerVars, jiraVars, bbVars,
                   tracked_threads, slackEvents, slackEffects, slackPolls, slackPoll>>

NextSlackBroadcast ==
    SlackUserPosts \/ SlackUserBroadcasts \/ SlackPollForMentions \/ SlackDispatch

SpecSlackBroadcast == Init /\ [][NextSlackBroadcast]_vars

\* C37: the list returned by one poll of the Slack connector holds no two
\* events with the same message ts, also when a message carrying a thread_ts
\* is returned by the channel-history fetch and by the thread-replies fetch
\* of the same cycle.
C37_NoDuplicateTs ==
    slackPoll.op = "poll" =>
        \A m, n \in DOMAIN slackPoll.events :
            slackPoll.events[m] = slackPoll.events[n] => m = n


----------------------------------------------------------------------------
\* C38: in every reachable state a request has status created if and only if
\* its jira_ticket_key and its created_ticket_at are set; and the key, once
\* set, never changes.  Checked on the store driven through its handlers
\* (SpecStore).
C38_CreatedIffTicket ==
    /\ [](\A rid \in DOMAIN requests :
             requests[rid].status = "created"
                <=> (/\ requests[rid].jira_ticket_key # NoKey
                     /\ requests[rid].created_ticket_at # 0))
    /\ [][\A rid \in DOMAIN requests :
             requests[rid].jira_ticket_key # NoKey
                => requests'[rid].jira_ticket_key = requests[rid].jira_ticket_key]_vars


----------------------------------------------------------------------------
\* C39: an sla_alerts record is created or updated only after the alert post
\* for that violation succeeded: in every step a record that is new or
\* changed belongs to a violation_id with a post accepted in that step; a
\* violation_id whose post failed, none for it being accepted in the run,
\* keeps its record as it was; and while its record is unchanged a violation
\* that was due stays due, so the next run takes the same decision and
\* alerts it again.
C39_RecordOnlyAfterPost ==
    [][LET accepted == {slaPosts'[k].violation_id :
                           k \in (Len(slaPosts) + 1)..Len(slaPosts')}
           SameRecord(vid) ==
               IF vid \in DOMAIN sla_alerts
               THEN vid \in DOMAIN sla_alerts' /\ sla_alerts'[vid] = sla_alerts[vid]
               ELSE vid \notin DOMAIN sla_alerts'
       IN /\ \A vid \in DOMAIN sla_alerts' : ~SameRecord(vid) => vid \in accepted
          /\ slaCall'.op = "run" =>
                \A vid \in slaCall'.failed : vid \notin accepted => SameRecord(vid)
          /\ \A v \in RunViolations :
                (SameRecord(ViolationId(v)) /\ ShouldAlertIn(sla_alerts, now, v))
                   => ShouldAlertIn(sla_alerts', now', v)]_vars

\* C39 witness: a run has just had the post for a violation_id refused whose
\* record exists from an earlier accepted post and still holds the time of
\* that post; a violation with that id is due.
C39_Witness ==
    /\ slaCall.op = "run"
    /\ \E v \in RunViolations :
          /\ ViolationId(v) \in slaCall.failed
          /\ ViolationId(v) \in DOMAIN sla_alerts
          /\ \E k \in 1..Len(slaPosts) :
                /\ slaPosts[k].violation_id = ViolationId(v)
                /\ slaPosts[k].at = sla_alerts[ViolationId(v)].last_alerted_at
                /\ slaPosts[k].at < now
          /\ \A k \in 1..Len(slaPosts) : slaPosts[k].at < now
          /\ ShouldAlertIn(sla_alerts, now, v)

============================================================================
